---- MODULE Spec2Model ----
(***************************************************************************)
(* Model of the Hikvision doorbell integration's device API                *)
(* (HikvisionDoorbellAPI, doorbell-api.ts): the door-capability store with *)
(* its single-flight load, door control, and the ACS event poller with the *)
(* event normalizer.                                                       *)
(*                                                                         *)
(* Asynchronous code is modelled at the granularity of its await points:   *)
(* one action per synchronous stretch of a handler.  Requests to the       *)
(* device are messages in flight; the device's answer is chosen by the     *)
(* environment.                                                            *)
(***************************************************************************)
EXTENDS Integers, Sequences, FiniteSets, TLC

(***************************************************************************)
(* Bounds of the model.                                                    *)
(***************************************************************************)
\* Number of API calls (getDoorControlCapabilities, controlDoor,
\* getDoorOpenDuration) made besides the constructor's own load.
NumCalls == 2
\* Number of capability requests the device is asked to answer.
MaxCapRequests == 2
\* Number of times the clock advances.
MaxAdvances == 2
\* Number of ACS poll interval callbacks that run.
MaxTicks == 2
\* Number of entries the device logs.
MaxLog == 2
\* Number of listenEvents() calls that find no listener.
MaxListens == 1
\* Number of alert-stream records processed.
MaxAlerts == 1
\* Number of startCallStatusPolling() calls made on their own.
MaxStarts == 2
\* Number of call-status interval callbacks that run.
MaxCallTicks == 4
\* Records handed to the event normalizer for the device entities.
MaxDevEvents == 3
\* Number of getDeviceTimezone() calls.
MaxTzCalls == 2
\* Number of emitEvent() calls made to the subscribers.
MaxEmits == 2
\* Number of listenEvents() calls that make a listener, when calls overlap.
MaxOverlappingListens == 2
\* Number of startIntercom() calls.
MaxIntercoms == 1
\* Number of getVideoChannels() calls.
MaxVideoCalls == 2

(***************************************************************************)
(* State.                                                                  *)
(***************************************************************************)
\* Capability store and door control.
VARIABLES
    capabilitiesLoaded,       \* this.capabilitiesLoaded
    loadCapabilitiesPromise,  \* this.loadCapabilitiesPromise: 0 = null, else a promise id
    doorMinNo,                \* this.doorMinNo
    doorMaxNo,                \* this.doorMaxNo
    availableCommands,        \* this.availableCommands (as a set)
    promiseState,             \* state of each performCapabilitiesLoad() promise
    capRequests,              \* capability requests issued so far
    calls,                    \* the API calls, each with its position
    doorRequests,             \* control requests sent to the device: <<doorNo, cmd>>
    storage                   \* this.storage, the keys doorOpenDuration_<doorNo>

capVars == <<capabilitiesLoaded, loadCapabilitiesPromise, doorMinNo, doorMaxNo,
             availableCommands, promiseState, capRequests, calls, doorRequests,
             storage>>

\* ACS event poller, event normalizer, listener.
VARIABLES
    now,                      \* the host clock (new Date())
    advances,                 \* how often the clock has advanced
    devZone,                  \* the zone offset the device's clock is set to
    deviceTimezone,           \* this.deviceTimezone: <<>> = undefined, else <<offset>>
    listener,                 \* this.listener: 0 = undefined, else the listener's id
    listenersMade,            \* listeners created so far
    listenCalls,              \* listenEvents() calls awaiting getDeviceTimezone()
    acsEventPollingInterval,  \* this.acsEventPollingInterval is set
    lastAcsEventTime,         \* this.lastAcsEventTime (the watermark)
    acsLog,                   \* the device's access-control event log
    polls,                    \* poll cycles whose request is in flight
    ticks,                    \* interval callbacks run so far
    emitRetries,              \* pending 250 ms retries of emitEvent
    isCallPollingActive,      \* this.isCallPollingActive
    callStatusInterval,       \* this.callStatusInterval: 0 = undefined, else a loop's id
    callStatusStopTimeout,    \* this.callStatusStopTimeout: 0 = undefined, else a timer's id
    lastCallState,            \* this.lastCallState
    callLoops,                \* ids of the call-status intervals not cleared
    callTimers,               \* the stop timeouts neither cleared nor fired: [id, at]
    pollingStartedAt,         \* when startAcsEventPolling last created the interval
    firstTick,                \* that interval's callback has not run yet
    cycle,                    \* the poll cycle the latest step completed, if any
    maxRouted,                \* <<>> or <<the latest entry time routed so far>>
    failures,                 \* polls that failed since the last one that succeeded
    alerts,                   \* alert-stream records processed so far
    lastAlert                 \* the alert-stream record the latest step processed, if any

clockVars == <<now, advances, devZone>>
listenVars == <<deviceTimezone, listener, listenersMade, listenCalls>>
pollVars == <<acsEventPollingInterval, lastAcsEventTime, polls, ticks,
              pollingStartedAt, firstTick>>
callPollVars == <<isCallPollingActive, callStatusInterval, callStatusStopTimeout,
                  lastCallState, callLoops, callTimers>>
histVars == <<maxRouted, failures, alerts>>
stepVars == <<cycle, lastAlert>>

acsVars == <<clockVars, listenVars, pollVars, callPollVars, histVars, stepVars,
             acsLog, emitRetries>>

\* Call-status polls and their history.
VARIABLES
    callPolls,                \* getCallStatus() requests in flight
    callTicks,                \* call-status interval callbacks run so far
    callStarts,               \* startCallStatusPolling() calls made on their own
    callStartedAt,            \* <<>> or <<when StartCall last ran, and whether polling was active>>
    callReads,                \* the call states read so far, in the order handled
    callEmits,                \* the events emitted by the call-status poller so far
    callStep                  \* what the latest step did to the call-status poller

callHistVars == <<callPolls, callTicks, callStarts, callStartedAt, callReads,
                  callEmits, callStep>>

\* Device entities: the locks and entry sensors, and the relock timers.
VARIABLES
    lockState,                \* lockState of each provisioned lock
    doorOpenDurationTimeout,  \* this.doorOpenDurationTimeout: 0 = undefined, else a timer's id
    relockTimers,             \* relock timers neither cleared nor fired: [id, door, at, unlock]
    lookups,                  \* Unlock handlers awaiting getDoorOpenDuration: [door, unlock]
    entryOpen,                \* entryOpen of each provisioned entry sensor
    sensorBinaryState,        \* binaryState of each provisioned entry sensor
    devEvents,                \* records handed to the normalizer so far
    lockEvents,               \* Lock and Unlock events the provisioned locks have handled
    lastUnlock,               \* the number of the latest of them that is an Unlock, or 0
    lastRecord,               \* the record the normalizer processed last
    lastEvent,                \* <<>> or <<the event emitted for that record>>
    unmappedSeen              \* whether a record of a pair EventCodeMap lacks was processed

devVars == <<lockState, doorOpenDurationTimeout, relockTimers, lookups, entryOpen,
             sensorBinaryState, devEvents, lockEvents, lastUnlock, lastRecord,
             lastEvent, unmappedSeen>>

\* The timezone resolver.
VARIABLES
    deviceTimezoneText,       \* this.deviceTimezone as the string cached: "" = undefined
    tzCalls,                  \* getDeviceTimezone() calls completed so far
    tzInput,                  \* what the latest of them met: the answer, the host's offset
    tzResult                  \* how it ended: the string returned, or an error raised

tzVars == <<deviceTimezoneText, tzCalls, tzInput, tzResult>>

\* The device's motion sensor, tamper entity and call state.
VARIABLES
    motionPingsItem,          \* storage item 'motionPings': "" = not set
    motionTimeoutItem,        \* storage item 'motionTimeout': "" = not set
    motionPings,              \* the handler's pulse counter
    motionDetected,           \* this.motionDetected (MotionState)
    motionTimeout,            \* the handler's motionTimeout: 0 = undefined, else a timer's id
    motionTimers,             \* decay timers neither cleared nor fired: [id, at]
    tamperAlert,              \* whether this.tamperAlert, the tamper entity, exists
    tamperOn,                 \* the tamper entity's state
    binaryState,              \* this.binaryState (CallRinging)
    ringStopTimers,           \* setTimeout(() => this.stopRinging(), 3000) pending: [unlock, at]
    controlQueue,             \* setImmediate callbacks pending: the events to emit on controlEvents
    sipManager,               \* whether this.sipManager exists
    ringStops,                \* stopRinging() calls awaiting hangup and answer: [id, startedAt, at]
    directCalls,              \* stopRinging() calls awaiting the stop-ringing command: [id, startedAt]
    intercoms,                \* startIntercom() calls made so far
    lastRing                  \* how the stopRinging() call that returned last went

motionVars == <<motionPingsItem, motionTimeoutItem, motionPings, motionDetected,
                motionTimeout, motionTimers, tamperAlert, tamperOn>>

ringVars == <<sipManager, ringStops, directCalls, intercoms, lastRing>>

entVars == <<motionVars, binaryState, ringStopTimers, controlQueue, ringVars>>

\* The provider's shared sessions and the logical devices that use them.
VARIABLES
    clients,                  \* provider.clients: the [key, session] pairs of the map
    eventApi,                 \* per logical device: the session getEventApi() gave it, or 0
    released                  \* the logical devices whose destroy() has run

sessVars == <<clients, eventApi, released>>

\* Emissions to the listener's subscribers.
VARIABLES
    emissions,                    \* per emitEvent() call: what each subscriber received, the retry
    emitErrors                \* [propagated, uncaught]: exceptions that left emitEvent, a retry

emitVars == <<emissions, emitErrors>>

\* The alert stream and its data handler.
VARIABLES
    stream,                   \* the bytes the device sends on the alert stream; <<>>: none open
    arrived,                 \* how many of them have arrived, in chunks
    buffer,                   \* the handler's buffer
    handed                    \* the JSON texts the handler has handed to JSON.parse, in order

streamVars == <<stream, arrived, buffer, handed>>

\* getVideoChannels and the stored channel list.
VARIABLES
    channelsJSON,             \* the item 'channelsJSON' of this.storage (<<>> when missing)
    videoPending,             \* getVideoChannels calls awaiting getCodecs: their ids
    videoCalls,               \* getVideoChannels calls made so far
    lastVideo                 \* the getVideoChannels call that ended last: what getCodecs
                              \* answered, and what the call returned or raised

videoVars == <<channelsJSON, videoPending, videoCalls, lastVideo>>

\* The parts that follow the shared sessions.
laterVars == <<emitVars, streamVars, videoVars>>

\* The parts that follow the device entities.
moreVars == <<sessVars, laterVars>>

\* What an emission leaves alone besides the listener.
emitFrame == <<capVars, clockVars, pollVars, callPollVars, histVars, acsLog, emitRetries,
               callHistVars, devVars, tzVars, entVars, sessVars, streamVars, videoVars>>

\* What the alert stream's data handler leaves alone.
streamFrame == <<capVars, clockVars, listenVars, pollVars, histVars, acsLog,
                 callHistVars, devVars, tzVars, entVars, sessVars, emitVars, videoVars>>

\* What the call-status poller leaves alone besides the parts before it.
restVars == <<devVars, tzVars, entVars, moreVars>>

\* What the capability store and the poller leave alone.
extVars == <<callHistVars, restVars>>

vars == <<capVars, acsVars, extVars>>

(***************************************************************************)
(* Part 1.  Capability store and door control.                             *)
(***************************************************************************)
Calls == 0 .. NumCalls          \* call 0 is the constructor's initializeDoorCapabilities
PromiseIds == 1 .. MaxCapRequests

\* Door numbers callers pass (strings, as in the code) and commands.
DoorNos == {"2", "x"}
\* The doors provisioned as devices: doorMinNo .. doorMaxNo of the defaults.
ProvisionedDoors == {"1"}
\* The doors whose door-parameter document storage may hold.
StoredDoors == DoorNos \cup ProvisionedDoors
Commands == {"open", "resume"}
DefaultCommands == {"open", "close", "alwaysOpen", "alwaysClose"}

\* parseInt of the strings the model uses; a non-numeric string gives NaN.
NaN == [nan |-> TRUE, val |-> 0]
Num(n) == [nan |-> FALSE, val |-> n]
parseInt(s) ==
    CASE s = "0" -> Num(0)
      [] s = "1" -> Num(1)
      [] s = "2" -> Num(2)
      [] s = "3" -> Num(3)
      [] OTHER   -> NaN

\* JavaScript's a < b and a > b on numbers: false when either side is NaN.
jsLess(a, b) == ~a.nan /\ ~b.nan /\ a.val < b.val
jsGreater(a, b) == ~a.nan /\ ~b.nan /\ a.val > b.val

\* parseInt (s) || 1 : NaN and 0 are falsy.
parseIntOr1(s) ==
    LET n == parseInt(s) IN IF n.nan \/ n.val = 0 THEN 1 ELSE n.val

\* What the device may answer to the capabilities request.  "error" is a
\* transport failure or an XML document that does not parse.  In a parsed
\* answer doorNo is absent or carries min/max attributes; cmd is absent,
\* an element without attributes (xml2js yields a plain string, so that
\* cmd.$ is undefined and cmd.$.opt throws), or carries the opt list.
CapResponses ==
    { [kind |-> "error", doorNo |-> <<>>, cmd |-> "absent", opt |-> {}],
      [kind |-> "xml", doorNo |-> <<>>, cmd |-> "absent", opt |-> {}],
      [kind |-> "xml", doorNo |-> <<"0", "2">>, cmd |-> "opt", opt |-> {"open", "resume"}],
      [kind |-> "xml", doorNo |-> <<"1", "2">>, cmd |-> "noattr", opt |-> {}] }

\* What the device may answer to the door-parameter request: "error" (the
\* request fails) or a DoorParam document, modelled by its openDuration text.
ParamResponses == {"error", "5"}

\* Number (text) for the openDuration texts the model uses.
jsNumber(text) == IF text = "5" THEN 5 ELSE 0

NoCaps == [min |-> 0, max |-> 0, cmds |-> {}]
CurrentCaps == [min |-> doorMinNo, max |-> doorMaxNo, cmds |-> availableCommands]

IdleCall == [op |-> "none", pc |-> "idle", p |-> 0, during |-> 0, door |-> "2",
             cmd |-> "open", load |-> "none", seen |-> NoCaps, result |-> "none",
             ret |-> 0]

InitCap ==
    /\ capabilitiesLoaded = FALSE
    /\ doorMinNo = 1
    /\ doorMaxNo = 1
    /\ availableCommands = DefaultCommands
    \* The constructor calls initializeDoorCapabilities(), which runs
    \* synchronously up to the request of performCapabilitiesLoad().
    /\ loadCapabilitiesPromise = 1
    /\ promiseState = [i \in PromiseIds |-> IF i = 1 THEN "pending" ELSE "unused"]
    /\ capRequests = 1
    /\ calls = [c \in Calls |->
                  IF c = 0
                  THEN [IdleCall EXCEPT !.op = "init", !.pc = "awaitOwner", !.p = 1]
                  ELSE IdleCall]
    /\ doorRequests = {}
    /\ storage = [d \in StoredDoors |-> ""]

\* validateDoorControl: the door-number test first, then the command test.
validateDoorControl(doorNo, command) ==
    LET doorNum == parseInt(doorNo) IN
    IF jsLess(doorNum, Num(doorMinNo)) \/ jsGreater(doorNum, Num(doorMaxNo))
    THEN "OutOfRange"
    ELSE IF command \notin availableCommands THEN "Unsupported" ELSE "valid"

\* The door-number test of getDoorOpenDuration.
validateDoorNumber(doorNo) ==
    LET doorNum == parseInt(doorNo) IN
    IF jsLess(doorNum, Num(doorMinNo)) \/ jsGreater(doorNum, Num(doorMaxNo))
    THEN "OutOfRange"
    ELSE "valid"

\* The value performCapabilitiesLoad() gives this.capabilitiesLoaded once the
\* answer has been parsed and applied.
capabilitiesLoadedStale == capabilitiesLoaded
capabilitiesLoadedAfterLoad == TRUE

\* performCapabilitiesLoad() from the device's answer on: the fields after it
\* and whether its promise resolves or rejects.
performCapabilitiesLoad(resp) ==
    LET unchanged == [min |-> doorMinNo, max |-> doorMaxNo, cmds |-> availableCommands,
                      loaded |-> capabilitiesLoaded, outcome |-> "rejected"]
        ranged == IF resp.doorNo # <<>>
                  THEN [unchanged EXCEPT !.min = parseIntOr1(resp.doorNo[1]),
                                         !.max = parseIntOr1(resp.doorNo[2])]
                  ELSE unchanged
    IN  CASE resp.kind = "error" -> unchanged
          [] resp.cmd = "noattr" -> ranged      \* cmd.$.opt throws after the range is set
          [] OTHER ->
               [ranged EXCEPT !.cmds = IF resp.cmd = "opt" THEN resp.opt ELSE @,
                              !.loaded = capabilitiesLoadedAfterLoad,
                              !.outcome = "resolved"]

\* The device answers the capabilities request of promise id.
CapFetchComplete(id, resp) ==
    /\ promiseState[id] = "pending"
    /\ LET after == performCapabilitiesLoad(resp) IN
        /\ doorMinNo' = after.min
        /\ doorMaxNo' = after.max
        /\ availableCommands' = after.cmds
        /\ capabilitiesLoaded' = after.loaded
        /\ promiseState' = [promiseState EXCEPT ![id] = after.outcome]
    /\ UNCHANGED <<loadCapabilitiesPromise, capRequests, calls, doorRequests, storage>>
    /\ UNCHANGED <<acsVars, extVars>>

\* loadDoorCapabilities(), its synchronous head: return at once, wait for the
\* load in flight, or start a load of its own.
loadDoorCapabilitiesAlways ==
    IF capabilitiesLoaded THEN "return" ELSE "owner"
loadDoorCapabilities ==
    IF capabilitiesLoaded THEN "return"
    ELSE IF loadCapabilitiesPromise # 0 THEN "shared"
    ELSE "owner"

\* The finally block of loadDoorCapabilities(): the new value of
\* this.loadCapabilitiesPromise, given how the awaited promise settled.
clearOnSuccessOnly(outcome) ==
    IF outcome = "rejected" THEN loadCapabilitiesPromise ELSE 0
loadFinally(outcome) == 0

\* The rest of a call once capabilities are available or the load has failed:
\* r is the call's record with r.load set.
Continue(c, r) ==
    LET failed == r.load = "rejected"
        check == IF r.op = "controlDoor" THEN validateDoorControl(r.door, r.cmd)
                 ELSE IF r.op = "getDoorOpenDuration" THEN validateDoorNumber(r.door)
                 ELSE "valid"
        seen == [r EXCEPT !.seen = CurrentCaps]
    IN  /\ calls' = [calls EXCEPT ![c] =
              CASE failed /\ r.op = "init" ->
                       [r EXCEPT !.pc = "done", !.result = "warned"]
                [] failed -> [r EXCEPT !.pc = "done", !.result = "LoadFailed"]
                [] check # "valid" -> [seen EXCEPT !.pc = "done", !.result = check]
                [] r.op = "controlDoor" -> [seen EXCEPT !.pc = "awaitControl"]
                [] r.op = "getDoorOpenDuration" -> [seen EXCEPT !.pc = "awaitParam"]
                [] OTHER -> [seen EXCEPT !.pc = "done", !.result = "ok"]]
        /\ doorRequests' =
              IF ~failed /\ check = "valid" /\ r.op = "controlDoor"
              THEN doorRequests \cup {<<r.door, r.cmd>>}
              ELSE doorRequests

\* The load whose request is in flight (0 if none): recorded in a call, as
\* `during`, when the call is made.
PendingLoad ==
    IF loadCapabilitiesPromise # 0 /\ promiseState[loadCapabilitiesPromise] = "pending"
    THEN loadCapabilitiesPromise
    ELSE 0

\* The head of getDoorControlCapabilities, controlDoor and getDoorOpenDuration
\* for the call c with record r: if (!this.capabilitiesLoaded) await
\* this.loadDoorCapabilities(), and what follows when nothing is awaited.
invoke(c, r) ==
    IF capabilitiesLoaded
    THEN /\ Continue(c, [r EXCEPT !.load = "skipped"])
         /\ UNCHANGED <<loadCapabilitiesPromise, promiseState, capRequests>>
    ELSE CASE loadDoorCapabilities = "shared" ->
                /\ calls' = [calls EXCEPT ![c] =
                       [r EXCEPT !.pc = "awaitShared", !.p = loadCapabilitiesPromise]]
                /\ UNCHANGED <<loadCapabilitiesPromise, promiseState, capRequests,
                               doorRequests>>
           [] loadDoorCapabilities = "owner" ->
                /\ capRequests < MaxCapRequests
                /\ capRequests' = capRequests + 1
                /\ promiseState' = [promiseState EXCEPT ![capRequests + 1] = "pending"]
                /\ loadCapabilitiesPromise' = capRequests + 1
                /\ calls' = [calls EXCEPT ![c] =
                       [r EXCEPT !.pc = "awaitOwner", !.p = capRequests + 1]]
                /\ UNCHANGED doorRequests
           [] OTHER ->
                /\ calls' = [calls EXCEPT ![c] =
                       [r EXCEPT !.pc = "resumed", !.load = "resolved"]]
                /\ UNCHANGED <<loadCapabilitiesPromise, promiseState, capRequests,
                               doorRequests>>

\* A caller invokes getDoorControlCapabilities(), controlDoor (doorNo, command)
\* or getDoorOpenDuration (doorNo): the code up to its first await.
Call(c, op, doorNo, command) ==
    /\ c # 0
    /\ calls[c].pc = "idle"
    \* calls are numbered in the order they are made
    /\ c > 1 => calls[c - 1].pc # "idle"
    /\ invoke(c, [calls[c] EXCEPT !.op = op, !.door = doorNo, !.cmd = command,
                                  !.during = PendingLoad])
    /\ UNCHANGED <<capabilitiesLoaded, doorMinNo, doorMaxNo, availableCommands, storage>>
    /\ UNCHANGED <<acsVars, extVars>>

Settled(id) == promiseState[id] \in {"resolved", "rejected"}

\* The call that started the load resumes from its await: the finally block.
OwnerFinally(c) ==
    /\ calls[c].pc = "awaitOwner"
    /\ Settled(calls[c].p)
    /\ loadCapabilitiesPromise' = loadFinally(promiseState[calls[c].p])
    /\ calls' = [calls EXCEPT ![c].pc = "resumed", ![c].load = promiseState[calls[c].p]]
    /\ UNCHANGED <<capabilitiesLoaded, doorMinNo, doorMaxNo, availableCommands,
                   promiseState, capRequests, doorRequests, storage>>
    /\ UNCHANGED <<acsVars, extVars>>

\* The owner's caller resumes after loadDoorCapabilities() has returned or thrown.
Proceed(c) ==
    /\ calls[c].pc = "resumed"
    /\ Continue(c, calls[c])
    /\ UNCHANGED <<capabilitiesLoaded, loadCapabilitiesPromise, doorMinNo, doorMaxNo,
                   availableCommands, promiseState, capRequests, storage>>
    /\ UNCHANGED <<acsVars, extVars>>

\* A call that waited on another call's load resumes.
SharedResume(c) ==
    /\ calls[c].pc = "awaitShared"
    /\ Settled(calls[c].p)
    /\ Continue(c, [calls[c] EXCEPT !.load = promiseState[calls[c].p]])
    /\ UNCHANGED <<capabilitiesLoaded, loadCapabilitiesPromise, doorMinNo, doorMaxNo,
                   availableCommands, promiseState, capRequests, storage>>
    /\ UNCHANGED <<acsVars, extVars>>

\* The device answers (or fails) the control request of controlDoor.
ControlComplete(c, ok) ==
    /\ calls[c].pc = "awaitControl"
    /\ calls' = [calls EXCEPT ![c].pc = "done",
                              ![c].result = IF ok THEN "ok" ELSE "Transport"]
    /\ UNCHANGED <<capabilitiesLoaded, loadCapabilitiesPromise, doorMinNo, doorMaxNo,
                   availableCommands, promiseState, capRequests, doorRequests, storage>>
    /\ UNCHANGED <<acsVars, extVars>>

\* The device answers (or fails) the door-parameter request of
\* getDoorOpenDuration: store the answer, or fall back to the stored one.
ParamComplete(c, resp) ==
    /\ calls[c].pc = "awaitParam"
    /\ LET door == calls[c].door
           xml == IF resp # "error" THEN resp ELSE storage[door]
       IN /\ storage' = IF resp # "error" THEN [storage EXCEPT ![door] = resp]
                        ELSE storage
          /\ calls' = [calls EXCEPT ![c] =
                IF xml = ""
                THEN [@ EXCEPT !.pc = "done", !.result = "Transport"]
                ELSE [@ EXCEPT !.pc = "done", !.result = "ok", !.ret = jsNumber(xml)]]
    /\ UNCHANGED <<capabilitiesLoaded, loadCapabilitiesPromise, doorMinNo, doorMaxNo,
                   availableCommands, promiseState, capRequests, doorRequests>>
    /\ UNCHANGED <<acsVars, extVars>>

NextCap ==
    \/ \E id \in PromiseIds, resp \in CapResponses : CapFetchComplete(id, resp)
    \/ \E c \in Calls : Call(c, "getDoorControlCapabilities", "2", "open")
    \/ \E c \in Calls, d \in DoorNos, k \in Commands : Call(c, "controlDoor", d, k)
    \/ \E c \in Calls, d \in DoorNos : Call(c, "getDoorOpenDuration", d, "open")
    \/ \E c \in Calls : OwnerFinally(c)
    \/ \E c \in Calls : Proceed(c)
    \/ \E c \in Calls : SharedResume(c)
    \/ \E c \in Calls, ok \in BOOLEAN : ControlComplete(c, ok)
    \/ \E c \in Calls, resp \in ParamResponses : ParamComplete(c, resp)

(***************************************************************************)
(* Part 2.  ACS event poller, event normalizer, listener.                  *)
(*                                                                         *)
(* Time is in seconds.  A Date is its absolute time.  A time string of the *)
(* device log is the device's wall-clock reading, without a zone: the      *)
(* absolute instant plus the device's zone offset.  The dateTime of an     *)
(* alert-stream record carries its zone and is an absolute time.           *)
(***************************************************************************)
maxEventAgeSeconds == 30
Hour == 60 * 60

\* The host's zone offset, and the zone offsets the device may be set to.
HostZone == 0 * Hour
DeviceZones == {0 * Hour, 3 * Hour}

\* The "major,minor" pairs that have an entry in EventCodeMap.
MappedKeys == {"5,25", "5,26", "5,92", "1,3", "1,2", "5,214", "5,9", "5,22"}

\* EventCodeMap with a pair that is not in the table taken as Motion.
EventCodeMapDefaultsToMotion(key) ==
    CASE key = "5,25"  -> "DoorOpened"
      [] key = "5,26"  -> "DoorClosed"
      [] key = "5,92"  -> "DoorAbnormalOpened"
      [] key = "1,3"   -> "Motion"
      [] key = "1,2"   -> "CaseTamperAlert"
      [] key = "5,214" -> "Unlock"
      [] key = "5,9"   -> "AccessDenied"
      [] key = "5,22"  -> "Lock"
      [] OTHER         -> "Motion"
\* EventCodeMap: "major,minor" to the event kind; "none" when there is no entry.
EventCodeMap(key) ==
    CASE key = "5,25"  -> "DoorOpened"
      [] key = "5,26"  -> "DoorClosed"
      [] key = "5,92"  -> "DoorAbnormalOpened"
      [] key = "1,3"   -> "Motion"
      [] key = "1,2"   -> "CaseTamperAlert"
      [] key = "5,214" -> "Unlock"
      [] key = "5,9"   -> "AccessDenied"
      [] key = "5,22"  -> "Lock"
      [] OTHER         -> "none"

\* The major,minor pairs the device reports in the model.
AcsKeys == {"1,3", "5,214"}

\* new Date (timeString) for a time string without a zone: host-local time.
newDate(wall) == wall - HostZone

\* convertDeviceTimeToUTC: the string with this.deviceTimezone appended, or
\* host-local time when the timezone is not loaded.
convertDeviceTimeToUTC(wall) ==
    IF deviceTimezone = <<>> THEN newDate(wall) ELSE wall - deviceTimezone[1]

\* The age test of processAlertStreamEvent and processAcsEvent.
tooOldInMillis(ageInSeconds) == ageInSeconds > maxEventAgeSeconds * 1000
tooOld(ageInSeconds) == ageInSeconds > maxEventAgeSeconds

\* The record of a completed poll cycle, and of a processed alert record.
NoCycle == [outcome |-> "none", w |-> 0, batch |-> <<>>, routed |-> <<>>,
            norms |-> <<>>, before |-> 0, first |-> FALSE, startedAt |-> 0,
            maxBefore |-> <<>>, afterFailures |-> 0]
NoAlert == [processed |-> FALSE, age |-> 0, dated |-> FALSE, kind |-> "none",
            emit |-> FALSE, startCall |-> FALSE, inactive |-> FALSE]

\* A step that completes no poll cycle and processes no alert record.
NoStep == cycle' = NoCycle /\ lastAlert' = NoAlert

InitAcs ==
    /\ now = 0
    /\ advances = 0
    /\ devZone \in DeviceZones
    /\ deviceTimezone = <<>>
    /\ listener = 0
    /\ listenersMade = 0
    /\ listenCalls = 0
    /\ acsEventPollingInterval = FALSE
    /\ lastAcsEventTime = now          \* field initializer: new Date()
    /\ acsLog = <<>>
    /\ polls = <<>>
    /\ ticks = 0
    /\ emitRetries = <<>>
    /\ isCallPollingActive = FALSE
    /\ callStatusInterval = 0
    /\ callStatusStopTimeout = 0
    /\ lastCallState = "idle"
    /\ callLoops = {}
    /\ callTimers = {}
    /\ pollingStartedAt = 0
    /\ firstTick = FALSE
    /\ cycle = NoCycle
    /\ maxRouted = <<>>
    /\ failures = 0
    /\ alerts = 0
    /\ lastAlert = NoAlert

\* The clock advances by a second or by the maximum event age.
Advance(d) ==
    /\ advances < MaxAdvances
    /\ advances' = advances + 1
    /\ now' = now + d
    /\ NoStep
    /\ UNCHANGED <<devZone, listenVars, pollVars, callPollVars, histVars, acsLog,
                   emitRetries, capVars, extVars>>

\* The device logs an access-control event, stamped with its wall clock.
\* (The log stays shorter than the maxResults = 30 entries of a request.)
DeviceLog(key) ==
    /\ Len(acsLog) < MaxLog
    /\ acsLog' = Append(acsLog, [time |-> now + devZone, key |-> key])
    /\ NoStep
    /\ UNCHANGED <<clockVars, listenVars, pollVars, callPollVars, histVars,
                   emitRetries, capVars, extVars>>

\* listenEvents() when there is no listener: up to await getDeviceTimezone().
\* (With a listener it returns this.listener and changes nothing.)  max
\* bounds the number of calls that go on to make a listener.
listenEvents(max) ==
    /\ listener = 0
    /\ listenersMade + listenCalls < max
    /\ listenCalls' = listenCalls + 1
    /\ NoStep
    /\ UNCHANGED <<deviceTimezone, listener, listenersMade>>
    /\ UNCHANGED <<clockVars, pollVars, callPollVars, histVars, acsLog,
                   emitRetries, capVars, extVars>>

\* One caller of listenEvents() at a time.
ListenEvents == listenEvents(MaxListens)

\* Callers of listenEvents() that may overlap: a call can be made while
\* another awaits the timezone.
ListenEventsOverlapping == listenEvents(MaxOverlappingListens)

\* getDeviceTimezone(): the device's zone when the request and its parsing
\* succeed, the host's zone otherwise.
getDeviceTimezone(ok) == IF ok THEN devZone ELSE HostZone

\* listenEvents() from the answer to the timezone request on: the timezone is
\* stored, startAcsEventPolling() creates the interval unless there is one,
\* and a new listener is stored.
TimezoneComplete(ok) ==
    /\ listenCalls > 0
    /\ listenCalls' = listenCalls - 1
    /\ deviceTimezone' = <<getDeviceTimezone(ok)>>
    /\ acsEventPollingInterval' = TRUE
    /\ pollingStartedAt' = IF acsEventPollingInterval THEN pollingStartedAt ELSE now
    /\ firstTick' = IF acsEventPollingInterval THEN firstTick ELSE TRUE
    /\ listenersMade' = listenersMade + 1
    /\ listener' = listenersMade + 1
    /\ NoStep
    /\ UNCHANGED <<lastAcsEventTime, polls, ticks>>
    /\ UNCHANGED <<clockVars, callPollVars, histVars, acsLog, emitRetries, capVars, extVars>>

\* destroy() of a listener returned by listenEvents(): its onDestroy callback
\* clears this.listener and calls stopAcsEventPolling().
ListenerDestroy ==
    /\ listenersMade > 0
    /\ listener' = 0
    /\ acsEventPollingInterval' = FALSE
    /\ NoStep
    /\ UNCHANGED <<deviceTimezone, listenersMade, listenCalls>>
    /\ UNCHANGED <<lastAcsEventTime, polls, ticks, pollingStartedAt, firstTick>>
    /\ UNCHANGED <<clockVars, callPollVars, histVars, acsLog, emitRetries, capVars, extVars>>

\* The interval callback of startAcsEventPolling(): pollAndProcessAcsEvents is
\* called with the current this.lastAcsEventTime and sends its request.
AcsTick ==
    /\ acsEventPollingInterval
    /\ ticks < MaxTicks
    /\ ticks' = ticks + 1
    /\ polls' = Append(polls, [w |-> lastAcsEventTime, sent |-> Len(acsLog),
                               first |-> firstTick, startedAt |-> pollingStartedAt,
                               afterFailures |-> failures])
    /\ firstTick' = FALSE
    /\ NoStep
    /\ UNCHANGED <<acsEventPollingInterval, lastAcsEventTime, pollingStartedAt>>
    /\ UNCHANGED <<clockVars, listenVars, callPollVars, histVars, acsLog,
                   emitRetries, capVars, extVars>>

RemoveAt(seq, i) == SubSeq(seq, 1, i - 1) \o SubSeq(seq, i + 1, Len(seq))

\* The latest of the entry times of a non-empty batch (latestEventTime).
RECURSIVE MaxTime(_)
MaxTime(entries) ==
    IF Len(entries) = 1 THEN newDate(entries[1].time)
    ELSE LET m == MaxTime(Tail(entries)) IN
         IF newDate(entries[1].time) > m THEN newDate(entries[1].time) ELSE m

\* pollAndProcessAcsEvents: the test that skips an entry.
skipsOlderOnly(eventTime, lastEventTime) == eventTime < lastEventTime
skipsEntry(eventTime, lastEventTime) == eventTime <= lastEventTime

\* processAcsEvent: what it does with one entry of the log.
processAcsEvent(e) ==
    LET doorbellEvent == EventCodeMap(e.key)
        ageInSeconds == now - convertDeviceTimeToUTC(e.time)
        fresh == ~tooOld(ageInSeconds)
    IN  [time |-> e.time, age |-> ageInSeconds, kind |-> doorbellEvent,
         emit |-> fresh /\ doorbellEvent # "none",
         startCall |-> fresh /\ doorbellEvent = "Motion"]

\* Events of a batch for which emitEvent is called, in order.
RECURSIVE Emitted(_)
Emitted(norms) ==
    IF norms = <<>> THEN <<>>
    ELSE (IF norms[1].emit THEN <<norms[1].kind>> ELSE <<>>) \o Emitted(Tail(norms))

\* emitEvent: this.listener.emit throws when there is no listener, and the
\* emission is retried 250 ms later; with a listener the events are emitted.
emitEvent(events) ==
    emitRetries' = IF listener = 0 THEN emitRetries \o events ELSE emitRetries

callStatusPollingTimeoutSeconds == 3 * 60

\* The handle setInterval or setTimeout returns: an id no live timer has.
NewId(ids) == CHOOSE i \in 1 .. Cardinality(ids) + 1 : i \notin ids
TimerIds(timers) == {t.id : t \in timers}

\* resetCallStatusPollingTimeout() that keeps a timeout that is pending.
resetKeepsPendingTimeout ==
    IF callStatusStopTimeout # 0 THEN UNCHANGED <<callTimers, callStatusStopTimeout>>
    ELSE /\ callTimers' = callTimers \cup
                {[id |-> NewId(TimerIds(callTimers)),
                  at |-> now + callStatusPollingTimeoutSeconds]}
         /\ callStatusStopTimeout' = NewId(TimerIds(callTimers))
\* resetCallStatusPollingTimeout(): the timer this.callStatusStopTimeout
\* names is cleared and a new one is set.
resetCallStatusPollingTimeout ==
    LET kept == {t \in callTimers : t.id # callStatusStopTimeout}
        id == NewId(TimerIds(kept))
    IN  /\ callTimers' = kept \cup {[id |-> id,
                                     at |-> now + callStatusPollingTimeoutSeconds]}
        /\ callStatusStopTimeout' = id

\* startCallStatusPolling() with the test for a poller already active left out.
startCallStatusPollingAgain(starts) ==
    IF ~starts THEN UNCHANGED callPollVars
    ELSE /\ isCallPollingActive' = TRUE
         /\ callStatusInterval' = NewId(callLoops)
         /\ callLoops' = callLoops \cup {NewId(callLoops)}
         /\ resetCallStatusPollingTimeout
         /\ UNCHANGED lastCallState
\* startCallStatusPolling() if starts, nothing otherwise: with an interval set
\* or polling active only the stop timeout is set anew, else the interval is
\* created as well.
startCallStatusPolling(starts) ==
    IF ~starts THEN UNCHANGED callPollVars
    ELSE IF callStatusInterval # 0 \/ isCallPollingActive
         THEN /\ resetCallStatusPollingTimeout
              /\ UNCHANGED <<isCallPollingActive, callStatusInterval, callLoops,
                             lastCallState>>
         ELSE /\ isCallPollingActive' = TRUE
              /\ callStatusInterval' = NewId(callLoops)
              /\ callLoops' = callLoops \cup {NewId(callLoops)}
              /\ resetCallStatusPollingTimeout
              /\ UNCHANGED lastCallState

\* The answer to a poll request arrives: the loop of pollAndProcessAcsEvents
\* over the entries and the update of this.lastAcsEventTime.  The answer
\* holds the log as the device read it at some moment since the request was
\* sent: its first n entries, the log being append-only.
AcsResponse(i, n) ==
    /\ i \in 1 .. Len(polls)
    /\ n \in polls[i].sent .. Len(acsLog)
    /\ LET lastEventTime == polls[i].w
           InfoList == SubSeq(acsLog, 1, n)
           routed == SelectSeq(InfoList,
                        LAMBDA e : ~skipsEntry(newDate(e.time), lastEventTime))
           norms == [k \in 1 .. Len(routed) |-> processAcsEvent(routed[k])]
       IN
       /\ lastAcsEventTime' = IF routed # <<>> THEN MaxTime(routed) ELSE lastAcsEventTime
       /\ emitEvent(Emitted(norms))
       /\ startCallStatusPolling(\E k \in 1 .. Len(norms) : norms[k].startCall)
       /\ cycle' = [outcome |-> "done", w |-> lastEventTime, batch |-> InfoList,
                    routed |-> routed, norms |-> norms, before |-> lastAcsEventTime,
                    first |-> polls[i].first, startedAt |-> polls[i].startedAt,
                    maxBefore |-> maxRouted,
                    afterFailures |-> polls[i].afterFailures]
       /\ maxRouted' = IF routed = <<>> THEN maxRouted
                       ELSE IF maxRouted = <<>> \/ MaxTime(routed) > maxRouted[1]
                            THEN <<MaxTime(routed)>> ELSE maxRouted
    /\ failures' = 0
    /\ polls' = RemoveAt(polls, i)
    /\ UNCHANGED <<acsEventPollingInterval, ticks, pollingStartedAt, firstTick>>
    /\ UNCHANGED <<clockVars, listenVars, alerts, lastAlert, acsLog, capVars, extVars>>

\* this.lastAcsEventTime after a poll that failed.
watermarkAdvancedOnFailure == now
watermarkOnFailure == lastAcsEventTime

\* A poll request fails, or its answer does not parse: getAcsEvents throws,
\* pollAndProcessAcsEvents rethrows, the interval callback logs a warning.
AcsFail(i) ==
    /\ i \in 1 .. Len(polls)
    /\ lastAcsEventTime' = watermarkOnFailure
    /\ cycle' = [NoCycle EXCEPT !.outcome = "failed", !.w = polls[i].w,
                                !.before = lastAcsEventTime,
                                !.first = polls[i].first,
                                !.startedAt = polls[i].startedAt,
                                !.maxBefore = maxRouted,
                                !.afterFailures = polls[i].afterFailures]
    /\ failures' = failures + 1
    /\ polls' = RemoveAt(polls, i)
    /\ UNCHANGED <<acsEventPollingInterval, ticks, pollingStartedAt, firstTick>>
    /\ UNCHANGED <<clockVars, listenVars, callPollVars, maxRouted, alerts, lastAlert,
                   acsLog, emitRetries, capVars, extVars>>

\* The retry timer of emitEvent fires: the event is emitted if a listener
\* exists by then, and dropped otherwise.
EmitRetry ==
    /\ emitRetries # <<>>
    /\ emitRetries' = Tail(emitRetries)
    /\ NoStep
    /\ UNCHANGED <<clockVars, listenVars, pollVars, callPollVars, histVars, acsLog,
                   capVars, extVars>>

\* The alert-stream records of the model: without dateTime, or with a
\* dateTime of the maximum event age or a second older.
AlertDates == {<<>>, <<maxEventAgeSeconds>>, <<maxEventAgeSeconds + 1>>}
AlertTypes == {"AccessControllerEvent", "videoloss"}
AlertStates == {"active", "inactive"}

\* processAlertStreamEvent starting the call-status poller for a Motion of
\* any eventState.
processAlertStreamEventAnyState(dateTime, eventType, key, eventState) ==
    LET inactive == eventState = "inactive"
        dated == dateTime # <<>>
        ageInSeconds == IF dated THEN dateTime[1] ELSE 0
        fresh == ~(dated /\ tooOld(ageInSeconds))
        doorbellEvent == IF eventType = "AccessControllerEvent"
                         THEN EventCodeMap(key) ELSE "none"
    IN  [processed |-> TRUE, age |-> ageInSeconds, dated |-> dated,
         kind |-> doorbellEvent,
         emit |-> fresh /\ doorbellEvent # "none",
         startCall |-> fresh /\ doorbellEvent = "Motion",
         inactive |-> inactive]
\* processAlertStreamEvent (eventData): a record whose dateTime, if it has
\* one, is age seconds ago, of the given eventType and eventState, carrying
\* an AccessControllerEvent with the given majorEventType,subEventType.
processAlertStreamEvent(dateTime, eventType, key, eventState) ==
    LET inactive == eventState = "inactive"
        dated == dateTime # <<>>
        ageInSeconds == IF dated THEN dateTime[1] ELSE 0
        fresh == ~(dated /\ tooOld(ageInSeconds))
        doorbellEvent == IF eventType = "AccessControllerEvent"
                         THEN EventCodeMap(key) ELSE "none"
    IN  [processed |-> TRUE, age |-> ageInSeconds, dated |-> dated,
         kind |-> doorbellEvent,
         emit |-> fresh /\ doorbellEvent # "none",
         startCall |-> fresh /\ doorbellEvent = "Motion" /\ ~inactive,
         inactive |-> inactive]

\* A record of the alert stream is handed to processAlertStreamEvent.
AlertStreamEvent(dateTime, eventType, key, eventState) ==
    /\ alerts < MaxAlerts
    /\ alerts' = alerts + 1
    /\ LET r == processAlertStreamEvent(dateTime, eventType, key, eventState) IN
       /\ lastAlert' = r
       /\ emitEvent(IF r.emit THEN <<r.kind>> ELSE <<>>)
       /\ startCallStatusPolling(r.startCall)
    /\ UNCHANGED <<clockVars, listenVars, pollVars, maxRouted, failures, cycle,
                   acsLog, capVars, extVars>>

NextAcs ==
    \/ \E d \in {1, maxEventAgeSeconds} : Advance(d)
    \/ \E key \in AcsKeys : DeviceLog(key)
    \/ ListenEvents
    \/ \E ok \in BOOLEAN : TimezoneComplete(ok)
    \/ ListenerDestroy
    \/ AcsTick
    \/ \E i \in 1 .. MaxTicks, n \in 0 .. MaxLog : AcsResponse(i, n)
    \/ \E i \in 1 .. MaxTicks : AcsFail(i)
    \/ EmitRetry

\* The ACS poller with callers of listenEvents() that overlap.
NextListen ==
    \/ \E d \in {1} : Advance(d)
    \/ \E key \in {"1,3"} : DeviceLog(key)
    \/ ListenEventsOverlapping
    \/ \E ok \in {TRUE} : TimezoneComplete(ok)
    \/ ListenerDestroy
    \/ AcsTick
    \/ \E i \in 1 .. MaxTicks, n \in 0 .. MaxLog : AcsResponse(i, n)
    \/ \E i \in 1 .. MaxTicks : AcsFail(i)
    \/ EmitRetry

NextNorm ==
    \/ \E d \in {1, maxEventAgeSeconds} : Advance(d)
    \/ \E key \in AcsKeys : DeviceLog(key)
    \/ ListenEvents
    \/ \E ok \in BOOLEAN : TimezoneComplete(ok)
    \/ AcsTick
    \/ \E i \in 1 .. MaxTicks, n \in 0 .. MaxLog : AcsResponse(i, n)
    \/ EmitRetry
    \/ \E dateTime \in AlertDates, eventType \in AlertTypes, key \in AcsKeys,
          eventState \in AlertStates :
            AlertStreamEvent(dateTime, eventType, key, eventState)

(***************************************************************************)
(* Part 3.  Call-status poller.                                            *)
(***************************************************************************)
\* The answers to a call-status request: a status, or a failure of the
\* request or of its parsing.
CallResponses == {"idle", "ringing", "onCall", "error"}

\* getCallStatus(): the callState it returns for an answer.
getCallStatus(resp) == IF resp = "error" THEN "idle" ELSE resp

NoCallStep == [op |-> "none", prev |-> "idle", read |-> "idle", emits |-> <<>>,
               resp |-> "none"]

InitCallHist ==
    /\ callPolls = 0
    /\ callTicks = 0
    /\ callStarts = 0
    /\ callStartedAt = <<>>
    /\ callReads = <<>>
    /\ callEmits = <<>>
    /\ callStep = NoCallStep

\* stopCallStatusPolling(): the interval and the timer the fields name are
\* cleared, the fields reset.
stopCallStatusPolling ==
    /\ callLoops' = callLoops \ {callStatusInterval}
    /\ callStatusInterval' = 0
    /\ callTimers' = {t \in callTimers : t.id # callStatusStopTimeout}
    /\ callStatusStopTimeout' = 0
    /\ isCallPollingActive' = FALSE
    /\ UNCHANGED lastCallState

\* An event handler reaches its call of startCallStatusPolling().
StartCall ==
    /\ callStarts < MaxStarts
    /\ callStarts' = callStarts + 1
    /\ startCallStatusPolling(TRUE)
    /\ callStartedAt' = <<[at |-> now, active |-> isCallPollingActive]>>
    /\ callStep' = [NoCallStep EXCEPT !.op = "start"]
    /\ UNCHANGED <<callPolls, callTicks, callReads, callEmits>>
    /\ UNCHANGED <<clockVars, listenVars, pollVars, histVars, stepVars, acsLog,
                   emitRetries, capVars, restVars>>

\* destroy() that leaves call-status polling running.
destroyKeepsCallPolling ==
    /\ listener' = 0
    /\ acsEventPollingInterval' = FALSE
    /\ UNCHANGED callPollVars
\* destroy(): the listener is destroyed (its callback clears this.listener
\* and stops ACS polling), call-status polling and ACS polling are stopped.
destroy ==
    /\ listener' = 0
    /\ acsEventPollingInterval' = FALSE
    /\ stopCallStatusPolling

\* destroy() called on the API object.
Destroy ==
    /\ destroy
    /\ callStep' = [NoCallStep EXCEPT !.op = "stop"]
    /\ NoStep
    /\ UNCHANGED <<deviceTimezone, listenersMade, listenCalls>>
    /\ UNCHANGED <<lastAcsEventTime, polls, ticks, pollingStartedAt, firstTick>>
    /\ UNCHANGED <<callPolls, callTicks, callStarts, callStartedAt, callReads,
                   callEmits>>
    /\ UNCHANGED <<clockVars, histVars, acsLog, emitRetries, capVars, restVars>>

\* The ids a live interval or timer can have: one per call that creates one.
HandleIds == 1 .. MaxStarts + MaxAlerts + MaxLog

\* The stop timeout with the given id fires: its callback calls
\* stopCallStatusPolling().
StopTimeoutFires(id) ==
    /\ \E t \in callTimers : t.id = id /\ now >= t.at
    /\ LET left == {u \in callTimers : u.id # id} IN
       /\ callLoops' = callLoops \ {callStatusInterval}
       /\ callStatusInterval' = 0
       /\ callTimers' = {u \in left : u.id # callStatusStopTimeout}
       /\ callStatusStopTimeout' = 0
       /\ isCallPollingActive' = FALSE
       /\ UNCHANGED lastCallState
    /\ callStep' = [NoCallStep EXCEPT !.op = "expire"]
    /\ UNCHANGED <<callPolls, callTicks, callStarts, callStartedAt, callReads,
                   callEmits>>
    /\ UNCHANGED <<clockVars, listenVars, pollVars, histVars, stepVars, acsLog,
                   emitRetries, capVars, restVars>>

\* The callback of a call-status interval: getCallStatus() sends its request.
CallTick(l) ==
    /\ l \in callLoops
    /\ callTicks < MaxCallTicks
    /\ callTicks' = callTicks + 1
    /\ callPolls' = callPolls + 1
    /\ callStep' = [NoCallStep EXCEPT !.op = "tick"]
    /\ UNCHANGED <<callStarts, callStartedAt, callReads, callEmits>>
    /\ UNCHANGED <<clockVars, listenVars, pollVars, callPollVars, histVars,
                   stepVars, acsLog, emitRetries, capVars, restVars>>

\* The events the interval callback emits for a callState read after the
\* remembered one.
callEdgeOnCurrent(lastState, callState) ==
    IF callState = "ringing" THEN <<"TalkInvite">>
    ELSE IF callState = "idle" THEN <<"TalkHangup">>
    ELSE <<>>
callEdge(lastState, callState) ==
    IF callState = lastState THEN <<>>
    ELSE IF callState = "ringing" /\ lastState = "idle" THEN <<"TalkInvite">>
    ELSE IF lastState = "ringing" /\ callState = "idle" THEN <<"TalkHangup">>
    ELSE <<>>

\* The answer to a call-status request arrives: the rest of the interval
\* callback.
CallRead(resp) ==
    /\ callPolls > 0
    /\ callPolls' = callPolls - 1
    /\ LET callState == getCallStatus(resp)
           emits == callEdge(lastCallState, callState)
       IN  /\ emitEvent(emits)
           /\ lastCallState' = callState
           /\ callReads' = Append(callReads, callState)
           /\ callEmits' = callEmits \o emits
           /\ callStep' = [op |-> "read", prev |-> lastCallState,
                           read |-> callState, emits |-> emits, resp |-> resp]
    /\ UNCHANGED <<isCallPollingActive, callStatusInterval, callStatusStopTimeout,
                   callLoops, callTimers>>
    /\ UNCHANGED <<callTicks, callStarts, callStartedAt>>
    /\ UNCHANGED <<clockVars, listenVars, pollVars, histVars, stepVars, acsLog,
                   capVars, restVars>>

NextCall ==
    \/ \E d \in {1, callStatusPollingTimeoutSeconds} : Advance(d)
    \/ StartCall
    \/ Destroy
    \/ \E id \in HandleIds : StopTimeoutFires(id)
    \/ \E l \in HandleIds : CallTick(l)
    \/ \E resp \in CallResponses : CallRead(resp)
    \/ EmitRetry

(***************************************************************************)
(* Part 4.  Device entities: the handler HikvisionCameraDoorbell.listenEvents *)
(* registers on the listener.  An emission runs the handler at once, up to  *)
(* its await; the handler of an Unlock goes on when getDoorOpenDuration     *)
(* settles.                                                                 *)
(***************************************************************************)
\* The major,minor pairs of the lock and door-sensor events.
DevKeys == {"5,214", "5,22", "5,25", "5,26", "5,92"}

\* channelID of an alert-stream record: absent, or a number.
ChannelIds == {<<>>, <<1>>, <<2>>}

\* Number.toString() for the channel numbers the model uses.
toString(n) == IF n = 1 THEN "1" ELSE "2"

\* processAlertStreamEvent: eventData.channelID?.toString() || '1'.
cameraNumber(channelID) == IF channelID = <<>> THEN "1" ELSE toString(channelID[1])

\* The capability store but for storage.
capButStorage == <<capabilitiesLoaded, loadCapabilitiesPromise, doorMinNo, doorMaxNo,
                   availableCommands, promiseState, capRequests, calls, doorRequests>>

NoRecord == [src |-> "none", key |-> "", channelID |-> <<>>, fresh |-> FALSE,
             eventState |-> ""]

\* What the storage may hold for the settings 'motionPings' and
\* 'motionTimeout' (a number of seconds): "" when the item is not set.
MotionPingsItems == {"", "2"}
MotionTimeoutItems == {"", "3"}

\* Neither setting is set: the handler uses its defaults.
DefaultSettings == motionPingsItem = "" /\ motionTimeoutItem = ""

\* No stopRinging() call has returned.
NoRing == [mode |-> "none", cause |-> "none", startedAt |-> 0, endedAt |-> 0,
           raised |-> FALSE]

\* The entity state after construction: the sensor's constructor sets
\* entryOpen to false (the model writes the values of entryOpen as strings,
\* 'jammed' being one of them); binaryState is not set (falsy).
InitEntities(doors) ==
    /\ lockState = [d \in doors |-> "Locked"]
    /\ entryOpen = [d \in doors |-> "false"]
    /\ sensorBinaryState = [d \in doors |-> FALSE]

\* The rest of the handler's state after construction.
InitHandler ==
    /\ doorOpenDurationTimeout = 0
    /\ relockTimers = {}
    /\ lookups = {}
    /\ devEvents = 0
    /\ lockEvents = 0
    /\ lastUnlock = 0
    /\ lastRecord = NoRecord
    /\ lastEvent = <<>>
    /\ unmappedSeen = FALSE
    /\ motionPingsItem \in MotionPingsItems
    /\ motionTimeoutItem \in MotionTimeoutItems
    /\ motionPings = 0
    /\ motionDetected = FALSE
    /\ motionTimeout = 0
    /\ motionTimers = {}
    /\ tamperAlert = FALSE
    /\ tamperOn = FALSE
    /\ binaryState = FALSE
    /\ ringStopTimers = {}
    /\ controlQueue = <<>>
    /\ sipManager = FALSE
    /\ ringStops = {}
    /\ directCalls = {}
    /\ intercoms = 0
    /\ lastRing = NoRing

InitDev == InitEntities(ProvisionedDoors) /\ InitHandler

\* A device with two doors: a lock and an entry sensor for each.
TwoDoors == {"1", "2"}

\* parseInt (this.storage.getItem ('motionPings')) || 1.
motionPingsNeeded == parseIntOr1(motionPingsItem)

\* (parseInt (this.storage.getItem ('motionTimeout')) || 10) * 1000, in seconds.
motionTimeoutDuration ==
    LET n == parseInt(motionTimeoutItem) IN IF n.nan \/ n.val = 0 THEN 10 ELSE n.val

\* The Motion branch without clearTimeout (motionTimeout).
motionPulseKeepsTimer ==
    LET id == NewId(TimerIds(motionTimers))
    IN  /\ motionPings' = motionPings + 1
        /\ motionDetected' = (motionPings + 1 >= motionPingsNeeded)
        /\ motionTimers' = motionTimers \cup
                {[id |-> id, at |-> now + motionTimeoutDuration]}
        /\ motionTimeout' = id
\* The Motion branch: the pulse is counted, MotionState is set from the
\* count, the decay timer motionTimeout names is cleared and a new one set.
motionPulse ==
    LET kept == {t \in motionTimers : t.id # motionTimeout}
        id == NewId(TimerIds(kept))
    IN  /\ motionPings' = motionPings + 1
        /\ motionDetected' = (motionPings + 1 >= motionPingsNeeded)
        /\ motionTimers' = kept \cup {[id |-> id, at |-> now + motionTimeoutDuration]}
        /\ motionTimeout' = id

\* The door branches with clearTimeout (this.doorOpenDurationTimeout) run for
\* an Unlock or Lock of any door, whether it has a lock or not.
onDoorEventClearsFirst(event, doorNo) ==
    IF event \in {"Unlock", "Lock"} /\ doorNo \in DOMAIN lockState
    THEN /\ lockState' = [lockState EXCEPT ![doorNo] =
                            IF event = "Unlock" THEN "Unlocked" ELSE "Locked"]
         /\ relockTimers' = {t \in relockTimers : t.id # doorOpenDurationTimeout}
         /\ lookups' = IF event = "Unlock"
                       THEN lookups \cup {[door |-> doorNo, unlock |-> lockEvents + 1]}
                       ELSE lookups
         /\ lockEvents' = lockEvents + 1
         /\ lastUnlock' = IF event = "Unlock" THEN lockEvents + 1 ELSE lastUnlock
         /\ UNCHANGED <<doorOpenDurationTimeout, entryOpen, sensorBinaryState>>
    ELSE IF event \in {"Unlock", "Lock"}
    THEN /\ relockTimers' = {t \in relockTimers : t.id # doorOpenDurationTimeout}
         /\ UNCHANGED <<lockState, doorOpenDurationTimeout, lookups, entryOpen,
                        sensorBinaryState, lockEvents, lastUnlock>>
    ELSE IF event \in {"DoorOpened", "DoorClosed"} /\ doorNo \in DOMAIN sensorBinaryState
    THEN /\ sensorBinaryState' = [sensorBinaryState EXCEPT ![doorNo] =
                                    (event = "DoorOpened")]
         /\ UNCHANGED <<lockState, doorOpenDurationTimeout, relockTimers, lookups,
                        entryOpen, lockEvents, lastUnlock>>
    ELSE UNCHANGED <<lockState, doorOpenDurationTimeout, relockTimers, lookups,
                     entryOpen, sensorBinaryState, lockEvents, lastUnlock>>
\* The Unlock/Lock branch and the DoorOpened/DoorClosed branch of the handler,
\* up to the first await: for a door that has a lock, respectively an entry
\* sensor; for any other event or door they change nothing.
onDoorEvent(event, doorNo) ==
    IF event \in {"Unlock", "Lock"} /\ doorNo \in DOMAIN lockState
    THEN /\ lockState' = [lockState EXCEPT ![doorNo] =
                            IF event = "Unlock" THEN "Unlocked" ELSE "Locked"]
         /\ relockTimers' = {t \in relockTimers : t.id # doorOpenDurationTimeout}
         /\ lookups' = IF event = "Unlock"
                       THEN lookups \cup {[door |-> doorNo, unlock |-> lockEvents + 1]}
                       ELSE lookups
         /\ lockEvents' = lockEvents + 1
         /\ lastUnlock' = IF event = "Unlock" THEN lockEvents + 1 ELSE lastUnlock
         /\ UNCHANGED <<doorOpenDurationTimeout, entryOpen, sensorBinaryState>>
    ELSE IF event \in {"DoorOpened", "DoorClosed"} /\ doorNo \in DOMAIN sensorBinaryState
    THEN /\ sensorBinaryState' = [sensorBinaryState EXCEPT ![doorNo] =
                                    (event = "DoorOpened")]
         /\ UNCHANGED <<lockState, doorOpenDurationTimeout, relockTimers, lookups,
                        entryOpen, lockEvents, lastUnlock>>
    ELSE UNCHANGED <<lockState, doorOpenDurationTimeout, relockTimers, lookups,
                     entryOpen, sensorBinaryState, lockEvents, lastUnlock>>

\* The test of the Motion branch with no fallback for CaseTamperAlert.
asMotionOnly(event) == event = "Motion"
\* Whether the Motion branch runs: for a Motion, and for a CaseTamperAlert
\* when there is no tamper entity (event = HikvisionDoorbellEvent.Motion).
asMotion(event) == event = "Motion" \/ (event = "CaseTamperAlert" /\ ~tamperAlert)

\* HikvisionTamperAlert.turnOn(): the tamper entity is on.
turnOn == tamperOn' = TRUE

\* The handler of 'event' up to its first await.  A CaseTamperAlert turns the
\* tamper entity on if there is one, and is handled as a Motion otherwise;
\* TalkInvite and TalkHangup set CallRinging and leave the event to be emitted
\* on controlEvents by setImmediate; then the door branches.
onEvent(event, doorNo) ==
    /\ IF event = "CaseTamperAlert" /\ tamperAlert THEN turnOn ELSE UNCHANGED tamperOn
    /\ IF asMotion(event) THEN motionPulse
       ELSE UNCHANGED <<motionPings, motionDetected, motionTimeout, motionTimers>>
    /\ binaryState' = IF event = "TalkInvite" THEN TRUE
                      ELSE IF event = "TalkHangup" THEN FALSE ELSE binaryState
    /\ onDoorEvent(event, doorNo)
    /\ controlQueue' = IF event \in {"TalkInvite", "TalkHangup"}
                       THEN Append(controlQueue, event) ELSE controlQueue
    /\ UNCHANGED <<motionPingsItem, motionTimeoutItem, tamperAlert, ringStopTimers,
                   ringVars>>

\* The ages of the log entries handed to processAcsEvent.
EntryAges == {0, maxEventAgeSeconds + 1}

\* pollAndProcessAcsEvents hands a log entry, stamped age seconds ago by the
\* device's wall clock, to processAcsEvent; the event it emits, for channel
\* '1', runs the handler.  (Polling runs while there is a listener.)
AcsEntryRouted(key, age) ==
    /\ listener # 0
    /\ devEvents < MaxDevEvents
    /\ devEvents' = devEvents + 1
    /\ unmappedSeen' = (unmappedSeen \/ key \notin MappedKeys)
    /\ LET r == processAcsEvent([time |-> now + devZone - age, key |-> key]) IN
       /\ lastRecord' = [src |-> "acs", key |-> key, channelID |-> <<>>,
                         fresh |-> ~tooOld(r.age), eventState |-> ""]
       /\ lastEvent' = IF r.emit
                       THEN <<[kind |-> r.kind, doorNo |-> "1", inactive |-> FALSE]>>
                       ELSE <<>>
       /\ onEvent(IF r.emit THEN r.kind ELSE "none", "1")
       /\ emitEvent(IF r.emit THEN <<r.kind>> ELSE <<>>)
       /\ startCallStatusPolling(r.startCall)
    /\ NoStep
    /\ UNCHANGED <<clockVars, listenVars, pollVars, histVars, acsLog>>
    /\ UNCHANGED <<capVars, callHistVars, tzVars, moreVars>>

\* A record of the alert stream, an AccessControllerEvent, is handed to
\* processAlertStreamEvent; the event it emits runs the handler.
AlertRecord(dateTime, key, channelID, eventState) ==
    /\ listener # 0
    /\ devEvents < MaxDevEvents
    /\ devEvents' = devEvents + 1
    /\ unmappedSeen' = (unmappedSeen \/ key \notin MappedKeys)
    /\ LET r == processAlertStreamEvent(dateTime, "AccessControllerEvent", key, eventState)
       IN
       /\ lastRecord' = [src |-> "alert", key |-> key, channelID |-> channelID,
                         fresh |-> ~(r.dated /\ tooOld(r.age)),
                         eventState |-> eventState]
       /\ lastEvent' = IF r.emit
                       THEN <<[kind |-> r.kind, doorNo |-> cameraNumber(channelID),
                               inactive |-> r.inactive]>>
                       ELSE <<>>
       /\ onEvent(IF r.emit THEN r.kind ELSE "none", cameraNumber(channelID))
       /\ emitEvent(IF r.emit THEN <<r.kind>> ELSE <<>>)
       /\ startCallStatusPolling(r.startCall)
    /\ NoStep
    /\ UNCHANGED <<clockVars, listenVars, pollVars, histVars, acsLog>>
    /\ UNCHANGED <<capVars, callHistVars, tzVars, moreVars>>

\* The delay of setTimeout (() => this.stopRinging(), 3000), in seconds.
ringStopDelay == 3

\* The numbers of the Unlock events whose handler may await its lookup.
UnlockIds == 1 .. MaxDevEvents

\* getDoorOpenDuration settles for the Unlock handler u: it throws for a door
\* out of range or when the request fails with no stored answer, and the
\* handler ends there; otherwise it returns the openDuration of the answer,
\* or of the stored one, and the handler sets the relock timer.
DurationComplete(u, resp) ==
    /\ \E l \in lookups : l.unlock = u
    /\ LET l == CHOOSE l \in lookups : l.unlock = u
           xml == IF resp # "error" THEN resp ELSE storage[l.door]
           thrown == validateDoorNumber(l.door) # "valid" \/ xml = ""
           id == NewId(TimerIds(relockTimers) \cup {doorOpenDurationTimeout})
       IN
       /\ lookups' = lookups \ {l}
       /\ storage' = IF validateDoorNumber(l.door) = "valid" /\ resp # "error"
                     THEN [storage EXCEPT ![l.door] = resp] ELSE storage
       /\ IF thrown
          THEN UNCHANGED <<relockTimers, doorOpenDurationTimeout, ringStopTimers>>
          ELSE /\ relockTimers' = relockTimers \cup
                      {[id |-> id, door |-> l.door,
                        at |-> now + jsNumber(xml), unlock |-> u]}
               /\ doorOpenDurationTimeout' = id
               /\ ringStopTimers' = ringStopTimers \cup
                      {[unlock |-> u, at |-> now + ringStopDelay]}
    /\ UNCHANGED <<lockState, entryOpen, sensorBinaryState, devEvents, lockEvents,
                   lastUnlock, lastRecord, lastEvent, unmappedSeen>>
    /\ UNCHANGED <<motionVars, binaryState, controlQueue, ringVars>>
    /\ UNCHANGED <<capButStorage, acsVars, callHistVars, tzVars, moreVars>>

\* The ids a relock timer can have.
RelockIds == 1 .. MaxDevEvents + 1

\* The relock timer with the given id fires (timers fire in the order of
\* their deadlines): the lock it was set for becomes Locked.
RelockFires(id) ==
    /\ \E t \in relockTimers :
         /\ t.id = id
         /\ now >= t.at
         /\ \A o \in relockTimers : o.at >= t.at
         /\ lockState' = [lockState EXCEPT ![t.door] = "Locked"]
         /\ relockTimers' = relockTimers \ {t}
    /\ UNCHANGED <<doorOpenDurationTimeout, lookups, entryOpen, sensorBinaryState,
                   devEvents, lockEvents, lastUnlock, lastRecord, lastEvent,
                   unmappedSeen>>
    /\ UNCHANGED <<capVars, acsVars, callHistVars, tzVars, entVars, moreVars>>

\* getDevice() for the tamper entity's id: this.tamperAlert is created.
GetTamperDevice ==
    /\ ~tamperAlert
    /\ tamperAlert' = TRUE
    /\ NoStep
    /\ UNCHANGED <<motionPingsItem, motionTimeoutItem, motionPings, motionDetected,
                   motionTimeout, motionTimers, tamperOn, binaryState, ringStopTimers,
                   controlQueue, ringVars>>
    /\ UNCHANGED <<clockVars, listenVars, pollVars, callPollVars, histVars, acsLog,
                   emitRetries>>
    /\ UNCHANGED <<capVars, callHistVars, devVars, tzVars, moreVars>>

\* The ids a decay timer can have.
MotionTimerIds == 1 .. 2

\* The decay timer with the given id fires: MotionState becomes false and
\* the pulse counter 0.
MotionTimeoutFires(id) ==
    /\ \E t \in motionTimers :
         /\ t.id = id
         /\ now >= t.at
         /\ \A o \in motionTimers : o.at >= t.at
         /\ motionTimers' = motionTimers \ {t}
    /\ motionDetected' = FALSE
    /\ motionPings' = 0
    /\ NoStep
    /\ UNCHANGED <<motionPingsItem, motionTimeoutItem, motionTimeout, tamperAlert,
                   tamperOn, binaryState, ringStopTimers, controlQueue, ringVars>>
    /\ UNCHANGED <<clockVars, listenVars, pollVars, callPollVars, histVars, acsLog,
                   emitRetries>>
    /\ UNCHANGED <<capVars, callHistVars, devVars, tzVars, moreVars>>

\* The major,minor pairs of the motion and tamper events, and a pair that
\* is not in EventCodeMap.
MotionKeys == {"1,3", "1,2", "5,1"}

\* dateTime of the alert-stream records of motion: absent, or too old.
MotionDates == {<<>>, <<maxEventAgeSeconds + 1>>}

NextMotion ==
    \/ \E d \in {3, 10} : Advance(d)
    \/ ListenEvents
    \/ \E ok \in BOOLEAN : TimezoneComplete(ok)
    \/ GetTamperDevice
    \/ \E key \in MotionKeys, age \in EntryAges : AcsEntryRouted(key, age)
    \/ \E dateTime \in MotionDates, key \in MotionKeys, eventState \in AlertStates :
            AlertRecord(dateTime, key, <<>>, eventState)
    \/ \E id \in MotionTimerIds : MotionTimeoutFires(id)

\* The timeout of timeoutPromise (5000, ...) in stopRinging, in seconds.
ringTimeout == 5

\* The canonical event TalkInvite or TalkHangup, emitted by the call-status
\* poller for channel '1', runs the handler.
TalkEvent(kind) ==
    /\ listener # 0
    /\ devEvents < MaxDevEvents
    /\ devEvents' = devEvents + 1
    /\ lastRecord' = [src |-> "call", key |-> "", channelID |-> <<>>, fresh |-> TRUE,
                      eventState |-> ""]
    /\ lastEvent' = <<[kind |-> kind, doorNo |-> "1", inactive |-> FALSE]>>
    /\ onEvent(kind, "1")
    /\ NoStep
    /\ UNCHANGED unmappedSeen
    /\ UNCHANGED <<clockVars, listenVars, pollVars, callPollVars, histVars, acsLog,
                   emitRetries>>
    /\ UNCHANGED <<capVars, callHistVars, tzVars, moreVars>>

\* What a step of the ring-stop function leaves alone.
ringFrame == <<capVars, clockVars, listenVars, pollVars, callPollVars, histVars, acsLog,
               emitRetries, callHistVars, devVars, tzVars, motionVars, moreVars>>

\* updateSip(): the SIP manager is created.
UpdateSip ==
    /\ ~sipManager
    /\ sipManager' = TRUE
    /\ NoStep
    /\ UNCHANGED <<binaryState, ringStopTimers, controlQueue, ringStops, directCalls,
                   intercoms, lastRing, ringFrame>>

\* How this.sipManager.answer() settles: it fulfils, or it rejects, without
\* delaying the caller.
AnswerOutcomes == BOOLEAN

\* stopRinging() with the test of this.binaryState left out.
stopRingingAnyState(answered) ==
    LET id == NewId({r.id : r \in ringStops \cup directCalls}) IN
    IF sipManager
    THEN /\ IF answered
            THEN /\ ringStops' = ringStops \cup
                        {[id |-> id, startedAt |-> now, at |-> now + ringTimeout]}
                 /\ UNCHANGED lastRing
            ELSE /\ lastRing' = [mode |-> "sip", cause |-> "answer", startedAt |-> now,
                                 endedAt |-> now, raised |-> FALSE]
                 /\ UNCHANGED ringStops
         /\ UNCHANGED directCalls
    ELSE /\ directCalls' = directCalls \cup {[id |-> id, startedAt |-> now]}
         /\ UNCHANGED <<ringStops, lastRing>>
\* stopRinging() up to its await: nothing when CallRinging is false; with a
\* SIP manager it awaits the hangup, under a timeout, and the answer (which
\* rejecting ends the wait at once, the catch logging the error); without
\* one it sends the stop-ringing command to the device.
stopRinging(answered) ==
    LET id == NewId({r.id : r \in ringStops \cup directCalls}) IN
    IF ~binaryState
    THEN /\ lastRing' = [mode |-> "noop", cause |-> "none", startedAt |-> now,
                         endedAt |-> now, raised |-> FALSE]
         /\ UNCHANGED <<ringStops, directCalls>>
    ELSE IF sipManager
    THEN /\ IF answered
            THEN /\ ringStops' = ringStops \cup
                        {[id |-> id, startedAt |-> now, at |-> now + ringTimeout]}
                 /\ UNCHANGED lastRing
            ELSE /\ lastRing' = [mode |-> "sip", cause |-> "answer", startedAt |-> now,
                                 endedAt |-> now, raised |-> FALSE]
                 /\ UNCHANGED ringStops
         /\ UNCHANGED directCalls
    ELSE /\ directCalls' = directCalls \cup {[id |-> id, startedAt |-> now]}
         /\ UNCHANGED <<ringStops, lastRing>>

\* startIntercom() up to the await in stopRinging().
StartIntercom(answered) ==
    /\ intercoms < MaxIntercoms
    /\ intercoms' = intercoms + 1
    /\ (~binaryState \/ ~sipManager) => answered
    /\ stopRinging(answered)
    /\ NoStep
    /\ UNCHANGED <<binaryState, ringStopTimers, controlQueue, sipManager, ringFrame>>

\* The timer the Unlock handler u set fires: stopRinging() up to its await.
RingStopFires(u, answered) ==
    /\ \E t \in ringStopTimers :
          /\ t.unlock = u
          /\ now >= t.at
          /\ ringStopTimers' = ringStopTimers \ {t}
    /\ (~binaryState \/ ~sipManager) => answered
    /\ stopRinging(answered)
    /\ NoStep
    /\ UNCHANGED <<binaryState, controlQueue, sipManager, intercoms, ringFrame>>

\* A setImmediate callback of the handler runs: the event is emitted on
\* controlEvents; a TalkHangup fulfils the once() promise of every
\* stopRinging() call that awaits it, and the call returns.
ControlEmit ==
    /\ controlQueue # <<>>
    /\ controlQueue' = Tail(controlQueue)
    /\ IF Head(controlQueue) = "TalkHangup" /\ ringStops # {}
       THEN LET r == CHOOSE x \in ringStops : \A y \in ringStops : x.id >= y.id IN
            /\ ringStops' = {}
            /\ lastRing' = [mode |-> "sip", cause |-> "hangup",
                            startedAt |-> r.startedAt, endedAt |-> now,
                            raised |-> FALSE]
       ELSE UNCHANGED <<ringStops, lastRing>>
    /\ NoStep
    /\ UNCHANGED <<binaryState, ringStopTimers, sipManager, directCalls, intercoms,
                   ringFrame>>

\* The ids a stopRinging() call can have.
RingIds == 1 .. MaxIntercoms + MaxDevEvents

\* The timer of timeoutPromise fires for the call id: its promise rejects,
\* the catch logs the error and the call returns.
RingTimeoutFires(id) ==
    /\ \E r \in ringStops :
          /\ r.id = id
          /\ now >= r.at
          /\ ringStops' = ringStops \ {r}
          /\ lastRing' = [mode |-> "sip", cause |-> "timeout",
                          startedAt |-> r.startedAt, endedAt |-> now, raised |-> FALSE]
    /\ NoStep
    /\ UNCHANGED <<binaryState, ringStopTimers, controlQueue, sipManager, directCalls,
                   intercoms, ringFrame>>

\* The stop-ringing command of the call id settles: the call returns, or
\* raises the error of the request.
DirectComplete(id, ok) ==
    /\ \E c \in directCalls :
          /\ c.id = id
          /\ directCalls' = directCalls \ {c}
          /\ lastRing' = [mode |-> "direct", cause |-> "command",
                          startedAt |-> c.startedAt, endedAt |-> now, raised |-> ~ok]
    /\ NoStep
    /\ UNCHANGED <<binaryState, ringStopTimers, controlQueue, sipManager, ringStops,
                   intercoms, ringFrame>>

NextRing ==
    \/ \E d \in {1, ringTimeout} : Advance(d)
    \/ ListenEvents
    \/ \E ok \in {TRUE} : TimezoneComplete(ok)
    \/ \E kind \in {"TalkInvite", "TalkHangup"} : TalkEvent(kind)
    \/ ControlEmit
    \/ UpdateSip
    \/ \E answered \in AnswerOutcomes : StartIntercom(answered)
    \/ \E id \in RingIds : RingTimeoutFires(id)
    \/ \E id \in RingIds, ok \in BOOLEAN : DirectComplete(id, ok)
    \/ AlertRecord(<<>>, "5,214", <<1>>, "active")
    \/ \E u \in UnlockIds : DurationComplete(u, "5")
    \/ \E u \in UnlockIds, answered \in AnswerOutcomes : RingStopFires(u, answered)

\* Unlock and Lock events of the alert stream for either door, the lookups
\* answered and the relock timers.
NextDoors ==
    \/ \E d \in {1, 5} : Advance(d)
    \/ ListenEvents
    \/ \E ok \in {TRUE} : TimezoneComplete(ok)
    \/ \E key \in {"5,214", "5,22"}, channelID \in {<<1>>, <<2>>} :
            AlertRecord(<<>>, key, channelID, "active")
    \/ \E u \in UnlockIds, resp \in ParamResponses : DurationComplete(u, resp)
    \/ \E id \in RelockIds : RelockFires(id)

NextDev ==
    \/ \E d \in {1, jsNumber("5")} : Advance(d)
    \/ ListenEvents
    \/ \E ok \in BOOLEAN : TimezoneComplete(ok)
    \/ \E key \in DevKeys, age \in EntryAges : AcsEntryRouted(key, age)
    \/ \E dateTime \in AlertDates, key \in DevKeys, channelID \in ChannelIds,
          eventState \in AlertStates :
            AlertRecord(dateTime, key, channelID, eventState)
    \/ \E u \in UnlockIds, resp \in ParamResponses : DurationComplete(u, resp)
    \/ \E id \in RelockIds : RelockFires(id)

(***************************************************************************)
(* Part 5.  The timezone resolver, getDeviceTimezone, on strings.  A string *)
(* is the sequence of its characters.                                       *)
(***************************************************************************)
Digits == <<"0", "1", "2", "3", "4", "5", "6", "7", "8", "9">>
isDigit(c) == \E k \in 1 .. 10 : Digits[k] = c
digitValue(c) == (CHOOSE k \in 1 .. 10 : Digits[k] = c) - 1

\* The characters of a string put together.
RECURSIVE Join(_)
Join(cs) == IF cs = <<>> THEN "" ELSE cs[1] \o Join(Tail(cs))

\* The timeZone texts of the device: CST, a sign, the hours in one or two
\* digits, the minutes and the seconds in two; and texts of other forms.
TzSigns == {"+", "-"}
TzHours == {<<"0">>, <<"3">>, <<"5">>, <<"0", "5">>, <<"1", "2">>}
TzMinutes == {<<"0", "0">>, <<"3", "0">>, <<"4", "5">>}
TzSeconds == {<<"0", "0">>, <<"3", "0">>}
timeZoneText(sign, hours, minutes, seconds) ==
    <<"C", "S", "T", sign>> \o hours \o <<":">> \o minutes \o <<":">> \o seconds
OtherTexts == {<<>>, <<"U", "T", "C">>, <<"C", "S", "T", "-", "3", ":", "0", "0">>}

\* What new Date().getTimezoneOffset() may return on the host: the minutes
\* from local time to UTC, negative east of Greenwich.
SystemOffsets == {-345, -330, -180, -60, 0, 60, 210, 300}

\* timezoneStr.match (/CST([+-])(\d{1,2}):(\d{2}):(\d{2})/) with the match
\* starting at i and h digits of hours.
matchAt(str, i, h) ==
    /\ i + 9 + h <= Len(str)
    /\ str[i] = "C" /\ str[i + 1] = "S" /\ str[i + 2] = "T"
    /\ str[i + 3] \in {"+", "-"}
    /\ \A k \in 1 .. h : isDigit(str[i + 3 + k])
    /\ str[i + 4 + h] = ":"
    /\ isDigit(str[i + 5 + h]) /\ isDigit(str[i + 6 + h])
    /\ str[i + 7 + h] = ":"
    /\ isDigit(str[i + 8 + h]) /\ isDigit(str[i + 9 + h])

\* The match: <<>> for null, else <<the groups>> of the leftmost match, the
\* hours taking two digits when they can.
match(str) ==
    LET starts == {i \in 1 .. Len(str) : matchAt(str, i, 1) \/ matchAt(str, i, 2)} IN
    IF starts = {} THEN <<>>
    ELSE LET i == CHOOSE j \in starts : \A k \in starts : j <= k
             h == IF matchAt(str, i, 2) THEN 2 ELSE 1
         IN  <<[sign |-> str[i + 3],
                hours |-> SubSeq(str, i + 4, i + 3 + h),
                minutes |-> SubSeq(str, i + 5 + h, i + 6 + h)]>>

\* str.padStart (n, '0').
RECURSIVE padStart(_, _)
padStart(str, n) == IF Len(str) >= n THEN str ELSE padStart(<<"0">> \o str, n)

\* Number.toString() of a natural number.
RECURSIVE numToString(_)
numToString(n) ==
    IF n < 10 THEN <<Digits[n + 1]>>
    ELSE numToString(n \div 10) \o <<Digits[(n % 10) + 1]>>

\* Math.floor (a / b), a % b (the sign of a) and Math.abs.
jsFloorDiv(a, b) == a \div b
jsRem(a, b) == IF a >= 0 THEN a % b ELSE -((-a) % b)
jsAbs(a) == IF a < 0 THEN -a ELSE a

\* sign === '-' ? '+' : '-'
sameSign(sign) == sign
invertedSign(sign) == IF sign = "-" THEN "+" ELSE "-"

\* The try block once the answer is there: <<>> when it throws, else
\* <<the offset>>.
gmtOffset(answer) ==
    IF answer.kind = "error" THEN <<>>
    ELSE IF answer.timeZone = <<>> THEN <<>>
    ELSE LET m == match(answer.timeZone) IN
         IF m = <<>> THEN <<>>
         ELSE <<<<invertedSign(m[1].sign)>> \o padStart(m[1].hours, 2) \o <<":">>
                  \o m[1].minutes>>

\* The catch block: the host's offset as the code formats it.
systemTimezone(systemOffset) ==
    LET offsetHours == jsAbs(jsFloorDiv(systemOffset, 60))
        offsetMinutes == jsAbs(jsRem(systemOffset, 60))
        sign == IF systemOffset <= 0 THEN "+" ELSE "-"
    IN  <<sign>> \o padStart(numToString(offsetHours), 2) \o <<":">>
          \o padStart(numToString(offsetMinutes), 2)

\* The seconds east of Greenwich that new Date reads from an offset +HH:MM.
offsetSeconds(off) ==
    (IF off[1] = "-" THEN -1 ELSE 1)
      * ((10 * digitValue(off[2]) + digitValue(off[3])) * Hour
          + (10 * digitValue(off[5]) + digitValue(off[6])) * 60)

NoTzInput == [kind |-> "none", timeZone |-> <<>>, failed |-> FALSE, systemOffset |-> 0]

InitTz ==
    /\ deviceTimezoneText = ""
    /\ tzCalls = 0
    /\ tzInput = NoTzInput
    /\ tzResult = [raised |-> FALSE, returned |-> ""]

\* getDeviceTimezone(): the device's answer to the timeZone request, and the
\* host's offset read when the try block throws.
GetDeviceTimezone(answer, systemOffset) ==
    /\ tzCalls < MaxTzCalls
    /\ tzCalls' = tzCalls + 1
    /\ LET g == gmtOffset(answer)
           off == IF g # <<>> THEN g[1] ELSE systemTimezone(systemOffset)
       IN
       /\ g # <<>> => systemOffset = 0       \* the host's offset is not read
       /\ tzInput' = [kind |-> answer.kind, timeZone |-> answer.timeZone,
                      failed |-> (g = <<>>), systemOffset |-> systemOffset]
       /\ deviceTimezoneText' = Join(off)
       /\ deviceTimezone' = <<offsetSeconds(off)>>
       /\ tzResult' = [raised |-> FALSE, returned |-> Join(off)]
    /\ UNCHANGED <<clockVars, listener, listenersMade, listenCalls, pollVars,
                   callPollVars, histVars, stepVars, acsLog, emitRetries>>
    /\ UNCHANGED <<capVars, callHistVars, devVars, entVars, moreVars>>

\* The answers: the request fails, or a document with the given timeZone
\* text (none when the text is empty).
TzAnswers ==
    {[kind |-> "error", timeZone |-> <<>>]}
      \cup {[kind |-> "xml", timeZone |-> t] : t \in OtherTexts}
      \cup {[kind |-> "xml", timeZone |-> timeZoneText(sign, h, m, sec)] :
              sign \in TzSigns, h \in TzHours, m \in TzMinutes, sec \in TzSeconds}

NextTz ==
    \E answer \in TzAnswers, systemOffset \in SystemOffsets :
        GetDeviceTimezone(answer, systemOffset)

(***************************************************************************)
(* Part 6.  The provider's shared sessions.  The API state of the model is  *)
(* that of the session of the connection identity SharedKey.                *)
(***************************************************************************)
\* The logical devices of the model.
Devices == {"a", "b", "c"}

InitSess ==
    /\ clients = {}
    /\ eventApi = [d \in Devices |-> 0]
    /\ released = {}

\* The connection identity `${ip}#${port}#${username}#${password}` of each
\* logical device: a and b are set up for the same device, c for another.
SharedKey == "10.0.0.2#80#admin#pw"
DeviceKey == [d \in Devices |-> IF d = "c" THEN "10.0.0.3#80#admin#pw" ELSE SharedKey]

\* createSharedClient: the session clients holds for the key, or a new one.
hasClient(key) == \E c \in clients : c.key = key
createSharedClient(key) ==
    IF hasClient(key) THEN (CHOOSE c \in clients : c.key = key).session
    ELSE Cardinality(clients) + 1
clientsAfter(key) ==
    IF hasClient(key) THEN clients
    ELSE clients \cup {[key |-> key, session |-> Cardinality(clients) + 1]}

\* HikvisionCameraDoorbell.listenEvents of device d up to its await: the
\* session is obtained and its listenEvents() called, which returns the
\* listener if there is one and else goes on to await getDeviceTimezone().
DeviceListenEvents(d) ==
    /\ d \notin released
    /\ eventApi[d] = 0
    /\ clients' = clientsAfter(DeviceKey[d])
    /\ eventApi' = [eventApi EXCEPT ![d] = createSharedClient(DeviceKey[d])]
    /\ IF DeviceKey[d] = SharedKey /\ listener = 0
       THEN /\ listenersMade + listenCalls < MaxListens
            /\ listenCalls' = listenCalls + 1
       ELSE UNCHANGED listenCalls
    /\ NoStep
    /\ UNCHANGED <<deviceTimezone, listener, listenersMade, released>>
    /\ UNCHANGED <<clockVars, pollVars, callPollVars, histVars, acsLog, emitRetries>>
    /\ UNCHANGED <<capVars, callHistVars, devVars, tzVars, entVars, laterVars>>

\* HikvisionCameraDoorbell.destroy() of device d: this.getEventApi()?.destroy().
DeviceDestroy(d) ==
    /\ d \notin released
    /\ released' = released \cup {d}
    /\ clients' = clientsAfter(DeviceKey[d])
    /\ IF DeviceKey[d] = SharedKey THEN destroy
       ELSE UNCHANGED <<listener, acsEventPollingInterval, callPollVars>>
    /\ NoStep
    /\ UNCHANGED <<deviceTimezone, listenersMade, listenCalls, eventApi>>
    /\ UNCHANGED <<lastAcsEventTime, polls, ticks, pollingStartedAt, firstTick>>
    /\ UNCHANGED <<clockVars, histVars, acsLog, emitRetries>>
    /\ UNCHANGED <<capVars, callHistVars, devVars, tzVars, entVars, laterVars>>

NextSess ==
    \/ \E d \in {1} : Advance(d)
    \/ \E d \in Devices : DeviceListenEvents(d)
    \/ \E ok \in BOOLEAN : TimezoneComplete(ok)
    \/ AcsTick
    \/ \E eventState \in AlertStates :
          AlertStreamEvent(<<>>, "AccessControllerEvent", "1,3", eventState)
    \/ \E d \in Devices : DeviceDestroy(d)

(***************************************************************************)
(* Part 7.  emitEvent and the listener's subscribers.  The listener is a    *)
(* Node EventEmitter: emit() calls the subscribers one after the other, in  *)
(* the order they subscribed, and a subscriber that throws ends the call:   *)
(* the exception leaves emit() and the subscribers after it are not called. *)
(***************************************************************************)
\* The subscribers of 'event', in the order they subscribed.
Subscribers == 1 .. 3

\* The delay of the retry of emitEvent, in milliseconds.
emitRetryDelay == 250

InitEmit ==
    /\ emissions = <<>>
    /\ emitErrors = [propagated |-> 0, uncaught |-> 0]

\* this.listener.emit() in which subscriber t throws (0: none does): the
\* subscribers called, t among them.
called(t) == IF t = 0 THEN Subscribers ELSE {s \in Subscribers : s <= t}

\* What the subscribers have received after one more emit().
receivedAfter(received, t) ==
    [s \in Subscribers |-> IF s \in called(t) THEN received[s] + 1 ELSE received[s]]

\* emitEvent(): this.listener.emit() inside try; it throws when there is no
\* listener or when subscriber t throws, and the catch sets the retry timer.
Emit(t) ==
    /\ Len(emissions) < MaxEmits
    /\ listener = 0 => t = 0
    /\ LET thrown == listener = 0 \/ t # 0 IN
       emissions' = Append(emissions,
                  [listener |-> listener, thrower |-> t,
                   received |-> IF listener = 0 THEN [s \in Subscribers |-> 0]
                                ELSE receivedAfter([s \in Subscribers |-> 0], t),
                   retry |-> IF thrown THEN "pending" ELSE "none",
                   delay |-> IF thrown THEN emitRetryDelay ELSE 0])
    /\ NoStep
    /\ UNCHANGED <<emitErrors, listenVars, emitFrame>>

\* The numbers of the emitEvent() calls.
EmitIds == 1 .. MaxEmits

\* The retry timer of call e fires: with a listener the event is emitted
\* again, outside any try; subscriber t throws again, or not.
EmitRetryFires(e, again) ==
    /\ e <= Len(emissions)
    /\ emissions[e].retry = "pending"
    /\ (listener = 0 \/ emissions[e].thrower = 0) => ~again
    /\ LET r == emissions[e]
           t == IF again THEN r.thrower ELSE 0
       IN  IF listener = 0
           THEN /\ emissions' = [emissions EXCEPT ![e].retry = "skipped"]
                /\ UNCHANGED emitErrors
           ELSE /\ emissions' = [emissions EXCEPT ![e].retry = "done",
                                          ![e].received = receivedAfter(r.received, t)]
                /\ emitErrors' = [emitErrors EXCEPT
                                    !.uncaught = IF again THEN @ + 1 ELSE @]
    /\ NoStep
    /\ UNCHANGED <<listenVars, emitFrame>>

NextEmit ==
    \/ ListenEvents
    \/ \E ok \in BOOLEAN : TimezoneComplete(ok)
    \/ ListenerDestroy
    \/ \E t \in {0} \cup Subscribers : Emit(t)
    \/ \E e \in EmitIds, again \in BOOLEAN : EmitRetryFires(e, again)

(***************************************************************************)
(* Part 8.  getVideoChannels and getDoorOpenDuration: the stored answer.   *)
(*                                                                         *)
(* A channel list is the sequence of the ids of its channels.  A JSON text *)
(* is a sequence of tokens; a missing storage item is the empty sequence.  *)
(***************************************************************************)

\* What getCodecs may do: fail with an error of the request, or return the
\* channels of the camera (none, or two).
CodecErrors == {"Timeout", "Unauthorized"}
ChannelLists == {<<>>, <<"101", "102">>}
CodecResponses ==
    [kind : {"error"}, error : CodecErrors, channels : {<<>>}]
        \cup [kind : {"channels"}, error : {"none"}, channels : ChannelLists]

NoVideo == [fetch |-> [kind |-> "none", error |-> "none", channels |-> <<>>],
            outcome |-> "none", error |-> "none", ret |-> {}]

InitVideo ==
    /\ channelsJSON = <<>>
    /\ videoPending = {}
    /\ videoCalls = 0
    /\ lastVideo = NoVideo

\* JSON.stringify of a channel list, and JSON.parse of such a text.
JSONstringify(channels) == <<"[">> \o channels \o <<"]">>
JSONparse(raw) == SubSeq(raw, 2, Len(raw) - 1)

\* The Map the call returns: the ids of the channels, each with its channel.
channelMap(channels) == {channels[i] : i \in 1 .. Len(channels)}

\* What the rest of the system leaves alone when getVideoChannels runs.
videoFrame == <<capVars, acsVars, callHistVars, devVars, tzVars, entVars, sessVars,
                emitVars, streamVars>>

\* getVideoChannels (camNumber) up to await this.getCodecs (camNumber).
GetVideoChannels ==
    /\ videoCalls < MaxVideoCalls
    /\ videoCalls' = videoCalls + 1
    /\ videoPending' = videoPending \cup {videoCalls + 1}
    /\ UNCHANGED <<channelsJSON, lastVideo, videoFrame>>

\* The catch block of getVideoChannels raising an error of its own when
\* nothing is stored.
videoFallbackGeneric(e) ==
    IF channelsJSON = <<>>
    THEN [outcome |-> "raised", error |-> "NoStoredChannels", ret |-> {}]
    ELSE [outcome |-> "returned", error |-> "none",
          ret |-> channelMap(JSONparse(channelsJSON))]
\* The catch block of getVideoChannels: the stored list, or the error caught.
videoFallback(e) ==
    IF channelsJSON = <<>>
    THEN [outcome |-> "raised", error |-> e, ret |-> {}]
    ELSE [outcome |-> "returned", error |-> "none",
          ret |-> channelMap(JSONparse(channelsJSON))]

\* getCodecs settles for the call id: the list is stored and returned as a
\* Map, or the catch block runs.
VideoComplete(id, resp) ==
    /\ id \in videoPending
    /\ videoPending' = videoPending \ {id}
    /\ IF resp.kind = "channels"
       THEN /\ channelsJSON' = JSONstringify(resp.channels)
            /\ lastVideo' = [fetch |-> resp,
                             outcome |-> "returned", error |-> "none",
                             ret |-> channelMap(resp.channels)]
       ELSE /\ UNCHANGED channelsJSON
            /\ LET r == videoFallback(resp.error) IN
               lastVideo' = [fetch |-> resp,
                             outcome |-> r.outcome, error |-> r.error, ret |-> r.ret]
    /\ UNCHANGED <<videoCalls, videoFrame>>

VideoIds == 1 .. MaxVideoCalls

NextStore ==
    \/ \E id \in PromiseIds, resp \in CapResponses : CapFetchComplete(id, resp)
    \/ \E c \in Calls, d \in DoorNos : Call(c, "getDoorOpenDuration", d, "open")
    \/ \E c \in Calls : OwnerFinally(c)
    \/ \E c \in Calls : Proceed(c)
    \/ \E c \in Calls : SharedResume(c)
    \/ \E c \in Calls, resp \in ParamResponses : ParamComplete(c, resp)
    \/ GetVideoChannels
    \/ \E id \in VideoIds, resp \in CodecResponses : VideoComplete(id, resp)

(***************************************************************************)
(* Part 9.  The alert stream: the 'data' handler of listenAlertStream.  A   *)
(* byte is written as the ASCII character it encodes; "C3" and "A9" are the *)
(* two bytes of the UTF-8 encoding of U+00E9.  A string is the sequence of  *)
(* its characters, "U+00E9" and "U+FFFD" being one character each.          *)
(***************************************************************************)
\* '--MIME_boundary'
MIME_boundary ==
    <<"-", "-", "M", "I", "M", "E", "_", "b", "o", "u", "n", "d", "a", "r",
      "y">>

\* 'Content-Type: application/json'
ContentType ==
    <<"C", "o", "n", "t", "e", "n", "t", "-", "T", "y", "p", "e", ":", " ",
      "a", "p", "p", "l", "i", "c", "a", "t", "i", "o", "n", "/", "j", "s",
      "o", "n">>

\* The JSON documents of the parts, as bytes: {"n":"a"}, {"a":{}}, the same
\* as the first with U+00E9 for a, and one cut short.
BodyAscii ==
    <<"{", "\"", "n", "\"", ":", "\"", "a", "\"", "}">>
BodyNested ==
    <<"{", "\"", "a", "\"", ":", "{", "}", "}">>
BodyAccent == <<"{", "\"", "n", "\"", ":", "\"", "C3", "A9", "\"", "}">>
BodyCut ==
    <<"{", "\"", "n", "\"", ":">>

\* A part as the device sends it: the boundary, the header, the document.
Part(body) == MIME_boundary \o <<"\n">> \o ContentType \o <<"\n", "\n">> \o body \o <<"\n">>

\* What the device may send: parts, and after them the start of a next one.
Streams ==
    { Part(BodyAscii) \o Part(BodyNested) \o MIME_boundary \o <<"\n">> \o ContentType,
      Part(BodyAccent) \o MIME_boundary \o <<"\n", "C", "o">>,
      Part(BodyCut) \o Part(BodyAscii) \o <<"-", "-", "M", "I", "M", "E">> }

InitStream ==
    /\ stream = <<>>
    /\ arrived = 0
    /\ buffer = <<>>
    /\ handed = <<>>

\* chunk.toString ('utf8'): the bytes decoded; a lead byte with no
\* continuation byte after it in the chunk, and a continuation byte with no
\* lead byte before it, each decode to U+FFFD.
toStringUtf8(bytes) ==
    LET chars == [i \in 1 .. Len(bytes) |->
                    IF bytes[i] = "C3" /\ i < Len(bytes) /\ bytes[i + 1] = "A9"
                    THEN "U+00E9"
                    ELSE IF bytes[i] = "A9" /\ i > 1 /\ bytes[i - 1] = "C3" THEN ""
                    ELSE IF bytes[i] \in {"C3", "A9"} THEN "U+FFFD"
                    ELSE bytes[i]]
    IN  SelectSeq(chars, LAMBDA c : c # "")

\* str.indexOf (pat) + 1: 0 when pat does not occur.
startsAt(str, i, pat) ==
    /\ i + Len(pat) - 1 <= Len(str)
    /\ \A k \in 1 .. Len(pat) : str[i + k - 1] = pat[k]
indexOf(str, pat) ==
    LET hits == {i \in 1 .. Len(str) : startsAt(str, i, pat)} IN
    IF hits = {} THEN 0 ELSE CHOOSE i \in hits : \A h \in hits : i <= h

\* str.split (sep) for a separator that is not empty.
RECURSIVE split(_, _)
split(str, sep) ==
    LET i == indexOf(str, sep) IN
    IF i = 0 THEN <<str>>
    ELSE <<SubSeq(str, 1, i - 1)>> \o split(SubSeq(str, i + Len(sep), Len(str)), sep)

\* !part.trim()
trimIsEmpty(part) == \A k \in 1 .. Len(part) : part[k] \in {" ", "\n", "\r", "\t"}

\* part.match (/Content-Type: application\/json[^{]*(\{.*\})/s): <<>> for
\* null, else <<the group>>: from the first { after the leftmost header to
\* the last } of the part.
jsonMatch(part) ==
    LET i == indexOf(part, ContentType)
        opens == {j \in i + Len(ContentType) .. Len(part) : part[j] = "{"}
        j == CHOOSE o \in opens : \A h \in opens : o <= h
        closes == {k \in j + 1 .. Len(part) : part[k] = "}"}
    IN  IF i = 0 \/ opens = {} THEN <<>>
        ELSE IF closes = {} THEN <<>>
        ELSE <<SubSeq(part, j, CHOOSE c \in closes : \A h \in closes : c >= h)>>

\* Whether JSON.parse takes the text, for the documents of the model: an
\* object with a member n that is a string of any characters, or with a
\* member a that is an empty object.
isJSON(text) ==
    \/ text = toStringUtf8(BodyNested)
    \/ /\ Len(text) >= 8
       /\ SubSeq(text, 1, 6) = SubSeq(BodyAscii, 1, 6)
       /\ SubSeq(text, Len(text) - 1, Len(text)) = <<"\"", "}">>
       /\ \A k \in 7 .. Len(text) - 2 : text[k] \notin {"\"", "\\", "\n"}

\* The loop over the complete parts: the JSON texts handed to JSON.parse,
\* and whether each parsed (and so went to processAlertStreamEvent).
RECURSIVE processParts(_)
processParts(parts) ==
    IF parts = <<>> THEN <<>>
    ELSE LET m == jsonMatch(parts[1]) IN
         (IF trimIsEmpty(parts[1]) \/ m = <<>> THEN <<>>
          ELSE <<[json |-> m[1], parsed |-> isJSON(m[1])]>>)
         \o processParts(Tail(parts))

\* listenAlertStream() once the request has its answer: the stream is open.
ListenAlertStream(bytes) ==
    /\ stream = <<>>
    /\ stream' = bytes
    /\ NoStep
    /\ UNCHANGED <<arrived, buffer, handed, callPollVars, emitRetries, streamFrame>>

\* The lengths a chunk can have.
ChunkLengths == 1 .. 3 * Len(Part(BodyAscii))

\* The 'data' handler for a chunk of the next n bytes.  The documents of the
\* model have no eventType: processAlertStreamEvent emits nothing for them.
Data(n) ==
    /\ arrived + n <= Len(stream)
    /\ arrived' = arrived + n
    /\ LET text == buffer \o toStringUtf8(SubSeq(stream, arrived + 1, arrived + n))
           parts == split(text, MIME_boundary)
           now_handed == processParts(SubSeq(parts, 1, Len(parts) - 1))
           parsed == SelectSeq(now_handed, LAMBDA h : h.parsed)
           rs == [k \in 1 .. Len(parsed) |->
                    processAlertStreamEvent(<<>>, "", "", "")]
       IN
       /\ buffer' = parts[Len(parts)]
       /\ handed' = handed \o now_handed
       /\ lastAlert' = IF rs = <<>> THEN NoAlert ELSE rs[Len(rs)]
       /\ cycle' = NoCycle
       /\ emitEvent(Emitted(rs))
       /\ startCallStatusPolling(\E k \in 1 .. Len(rs) : rs[k].startCall)
    /\ UNCHANGED <<stream, streamFrame>>

NextStream ==
    \/ \E bytes \in Streams : ListenAlertStream(bytes)
    \/ \E n \in ChunkLengths : Data(n)

(***************************************************************************)
(* Part 10.  HikvisionLock: lock() and unlock() of the lock of door '1'.   *)
(* A call made by the lock carries the lock's doorNumber.                  *)
(***************************************************************************)

\* What the lock's calls leave alone besides capVars and lockState.
lockFrame == <<doorOpenDurationTimeout, relockTimers, lookups, entryOpen,
               sensorBinaryState, devEvents, lockEvents, lastUnlock, lastRecord,
               lastEvent, unmappedSeen>>

\* unlock() up to the first await of controlDoor (this.doorNumber, 'open').
unlock(c) == Call(c, "controlDoor", "1", "open")

\* lock() up to the first await of getDoorControlCapabilities().
lock(c) == Call(c, "getDoorControlCapabilities", "1", "close")

\* lock() after getDoorControlCapabilities(): when that threw, lock() throws;
\* otherwise it picks 'close' if the device has it, else 'resume', and runs
\* controlDoor up to its first await.
LockCommand(c) ==
    /\ calls[c].pc = "done"
    /\ calls[c].op = "getDoorControlCapabilities"
    /\ calls[c].door = "1"
    /\ IF calls[c].result = "ok"
       THEN LET command == IF "close" \in calls[c].seen.cmds THEN "close" ELSE "resume"
            IN invoke(c, [calls[c] EXCEPT !.op = "controlDoor", !.cmd = command,
                                          !.during = PendingLoad, !.result = "none"])
       ELSE /\ calls' = [calls EXCEPT ![c].pc = "raised"]
            /\ UNCHANGED <<loadCapabilitiesPromise, promiseState, capRequests,
                           doorRequests>>
    /\ UNCHANGED <<capabilitiesLoaded, doorMinNo, doorMaxNo, availableCommands, storage>>
    /\ UNCHANGED <<acsVars, extVars>>

\* lock() / unlock() setting this.lockState whether or not controlDoor threw.
LockReturnOptimistic(c) ==
    /\ calls[c].pc = "done"
    /\ calls[c].op = "controlDoor"
    /\ calls[c].door = "1"
    /\ calls' = [calls EXCEPT ![c].pc =
                    IF calls[c].result = "ok" THEN "returned" ELSE "raised"]
    /\ lockState' = [lockState EXCEPT !["1"] =
                         IF calls[c].cmd = "open" THEN "Unlocked" ELSE "Locked"]
    /\ UNCHANGED <<capabilitiesLoaded, loadCapabilitiesPromise, doorMinNo, doorMaxNo,
                   availableCommands, promiseState, capRequests, doorRequests, storage>>
    /\ UNCHANGED <<lockFrame, acsVars, callHistVars, tzVars, entVars, moreVars>>
\* lock() / unlock() after await controlDoor: when it threw, the method
\* throws; otherwise this.lockState is set and the method returns.
LockReturn(c) ==
    /\ calls[c].pc = "done"
    /\ calls[c].op = "controlDoor"
    /\ calls[c].door = "1"
    /\ calls' = [calls EXCEPT ![c].pc =
                    IF calls[c].result = "ok" THEN "returned" ELSE "raised"]
    /\ lockState' = IF calls[c].result # "ok" THEN lockState
                    ELSE [lockState EXCEPT !["1"] =
                             IF calls[c].cmd = "open" THEN "Unlocked" ELSE "Locked"]
    /\ UNCHANGED <<capabilitiesLoaded, loadCapabilitiesPromise, doorMinNo, doorMaxNo,
                   availableCommands, promiseState, capRequests, doorRequests, storage>>
    /\ UNCHANGED <<lockFrame, acsVars, callHistVars, tzVars, entVars, moreVars>>

NextLock ==
    \/ \E id \in PromiseIds, resp \in CapResponses : CapFetchComplete(id, resp)
    \/ \E c \in Calls : unlock(c)
    \/ \E c \in Calls : lock(c)
    \/ \E c \in Calls : LockCommand(c)
    \/ \E c \in Calls : OwnerFinally(c)
    \/ \E c \in Calls : Proceed(c)
    \/ \E c \in Calls : SharedResume(c)
    \/ \E c \in Calls, ok \in BOOLEAN : ControlComplete(c, ok)
    \/ \E c \in Calls : LockReturn(c)

InitMore == InitSess /\ InitEmit /\ InitStream /\ InitVideo

Init ==
    InitCap /\ InitAcs /\ InitCallHist /\ InitDev /\ InitTz /\ InitMore /\ DefaultSettings

\* Init with the device in the host's zone.
InitHostZone == Init /\ devZone = HostZone

\* The capability store with door control, the ACS poller, and the event
\* normalizer with both of its sources, each alone.
SpecCap == InitHostZone /\ [][NextCap]_vars
SpecAcs == Init /\ [][NextAcs]_vars
SpecNorm == Init /\ [][NextNorm]_vars
SpecCall == InitHostZone /\ [][NextCall]_vars
SpecDev == InitHostZone /\ [][NextDev]_vars
SpecTz == InitHostZone /\ [][NextTz]_vars

\* The handler with the locks of two doors.
InitTwoDoors ==
    /\ InitCap /\ InitAcs /\ InitCallHist /\ InitEntities(TwoDoors) /\ InitHandler
    /\ InitTz /\ InitMore /\ DefaultSettings /\ devZone = HostZone
SpecDoors == InitTwoDoors /\ [][NextDoors]_vars

\* The handler's motion and tamper branches, under any settings.
InitMotion ==
    InitCap /\ InitAcs /\ InitCallHist /\ InitDev /\ InitTz /\ InitMore
    /\ devZone = HostZone
SpecMotion == InitMotion /\ [][NextMotion]_vars
SpecSess == InitHostZone /\ [][NextSess]_vars
SpecEmit == InitHostZone /\ [][NextEmit]_vars
SpecStream == InitHostZone /\ [][NextStream]_vars
SpecRing == InitHostZone /\ [][NextRing]_vars
SpecStore == InitHostZone /\ [][NextStore]_vars
SpecListen == InitHostZone /\ [][NextListen]_vars
SpecLock == InitHostZone /\ [][NextLock]_vars
\* Pending setImmediate callbacks run, and a timer that is due fires.
SpecRingFair ==
    SpecRing /\ WF_vars(ControlEmit) /\ WF_vars(\E id \in RingIds : RingTimeoutFires(id))

\* The call-status poller, with every stop timeout that is due firing in the
\* end (the event loop runs the callback of a timer that is due).
SpecCallFair ==
    SpecCall /\ WF_vars(\E id \in HandleIds : StopTimeoutFires(id))

\* The device entities, where every lookup of an open duration settles
\* (the request is answered or fails) and every relock timer that is due
\* fires (the event loop runs it).
SpecDevFair ==
    /\ SpecDev
    /\ WF_vars(\E u \in UnlockIds, resp \in ParamResponses : DurationComplete(u, resp))
    /\ WF_vars(\E id \in RelockIds : RelockFires(id))

(***************************************************************************)
(* Claims about the capability store and door control (under SpecCap).     *)
(***************************************************************************)
PastLoad(c) == calls[c].load \in {"resolved", "rejected"}
Finished(c) == calls[c].pc = "done"

\* C1: the calls made while a capabilities request is in flight all wait on
\* that request's promise and none of them issues a request of its own, so
\* that while the first load is pending exactly one request has been issued;
\* the calls that waited on one promise all get that promise's outcome, and
\* those that succeeded saw the same door range and command set.
C1_SingleFlight ==
    /\ promiseState[1] = "pending" => capRequests = 1
    /\ Cardinality({i \in PromiseIds : promiseState[i] # "unused"}) = capRequests
    /\ \A c \in Calls : calls[c].during # 0 => calls[c].p = calls[c].during
    /\ \A c \in Calls : PastLoad(c) /\ calls[c].p # 0 =>
            calls[c].load = promiseState[calls[c].p]
    /\ \A c1, c2 \in Calls :
            /\ calls[c1].p # 0 /\ calls[c1].p = calls[c2].p
            /\ Finished(c1) /\ Finished(c2)
            => /\ calls[c1].load = calls[c2].load
               /\ calls[c1].load = "resolved" /\ calls[c1].op # "init"
                     /\ calls[c2].op # "init"
                  => calls[c1].seen = calls[c2].seen

\* Two calls made during the constructor's load have finished, together with
\* the constructor's own, on the answer to the single request.
C1_Witness ==
    /\ capRequests = 1
    /\ \A c \in Calls : Finished(c) /\ calls[c].p = 1 /\ calls[c].load = "resolved"
    /\ calls[1].during = 1 /\ calls[2].during = 1

\* C2: when a capabilities request fails, every call that waited on it gets
\* the failure; the store stays not loaded; once the call that started the
\* load has resumed, this.loadCapabilitiesPromise no longer names the failed
\* load; and a load call made with no load in flight and nothing loaded
\* issues a new request.
C2_FailureState ==
    /\ \A c \in Calls :
            /\ calls[c].p # 0 /\ promiseState[calls[c].p] = "rejected"
            /\ calls[c].pc \notin {"awaitOwner", "awaitShared"}
            => /\ calls[c].load = "rejected"
               /\ calls[c].pc = "resumed" \/ calls[c].result \in {"LoadFailed", "warned"}
    /\ (\A i \in PromiseIds : promiseState[i] # "resolved") => ~capabilitiesLoaded
    /\ \A i \in PromiseIds :
            promiseState[i] = "rejected" /\ loadCapabilitiesPromise = i
            => \E c \in Calls : calls[c].pc = "awaitOwner" /\ calls[c].p = i
C2_FreshFetch ==
    \A c \in Calls :
        /\ calls[c].pc = "idle" /\ calls'[c].pc # "idle"
        /\ ~capabilitiesLoaded /\ loadCapabilitiesPromise = 0
        => /\ capRequests' = capRequests + 1
           /\ loadCapabilitiesPromise' = capRequests'
           /\ promiseState'[capRequests'] = "pending"
           /\ calls'[c].pc = "awaitOwner" /\ calls'[c].p = capRequests'
\* C2: after a failed load no cache is marked loaded and no promise stays
\* stored (C2_FailureState), and the next call issues a new request
\* (C2_FreshFetch).
C2_FailedLoadRetries == []C2_FailureState /\ [][C2_FreshFetch]_vars

\* The first load failed for the constructor and for a call that waited on
\* it; a later call started a second load, which succeeded.
C2_Witness ==
    /\ promiseState[1] = "rejected" /\ promiseState[2] = "resolved"
    /\ calls[0].result = "warned"
    /\ calls[1].during = 1 /\ calls[1].result = "LoadFailed"
    /\ calls[2].p = 2 /\ calls[2].load = "resolved" /\ Finished(2)
    /\ capabilitiesLoaded /\ loadCapabilitiesPromise = 0

\* C3: once a capabilities load has succeeded, no step issues another
\* capabilities request or changes the cached door range or command set.
C3_Step ==
    (\E i \in PromiseIds : promiseState[i] = "resolved")
    => /\ capRequests' = capRequests
       /\ <<doorMinNo, doorMaxNo, availableCommands>>' =
             <<doorMinNo, doorMaxNo, availableCommands>>
       /\ capabilitiesLoaded /\ capabilitiesLoaded'
\* C3: every step keeps a loaded cache as it is and sends no capability
\* request (C3_Step).
C3_LoadedCacheIsFinal == [][C3_Step]_vars

\* After a successful load, calls of all three kinds were made and served
\* from the cache.
C3_Witness ==
    /\ promiseState[1] = "resolved" /\ capRequests = 1
    /\ calls[1].load = "skipped" /\ calls[1].op = "controlDoor" /\ Finished(1)
    /\ calls[2].load = "skipped" /\ calls[2].op = "getDoorOpenDuration" /\ Finished(2)

\* A door number that denotes a door of the loaded range.
DoorInRange(doorNo) ==
    /\ ~parseInt(doorNo).nan
    /\ doorMinNo <= parseInt(doorNo).val /\ parseInt(doorNo).val <= doorMaxNo

ControlSent(c) ==
    calls[c].pc = "awaitControl" \/ calls[c].result \in {"ok", "Transport"}

\* C4: controlDoor sends the control request only with capabilities loaded,
\* the door number within [doorMinNo, doorMaxNo] and the command in the
\* command set; it fails with OutOfRange exactly when the door number is
\* outside the range, else with Unsupported when the command is not in the
\* set, and a failed load makes it fail with nothing sent.
C4_ControlDoorValidated ==
    \A c \in Calls : calls[c].op = "controlDoor" =>
        /\ ControlSent(c) =>
              /\ capabilitiesLoaded
              /\ DoorInRange(calls[c].door)
              /\ calls[c].cmd \in availableCommands
              /\ <<calls[c].door, calls[c].cmd>> \in doorRequests
        /\ calls[c].result = "OutOfRange" => ~DoorInRange(calls[c].door)
        /\ calls[c].result = "Unsupported" =>
              DoorInRange(calls[c].door) /\ calls[c].cmd \notin availableCommands
        /\ calls[c].result = "LoadFailed" => ~capabilitiesLoaded \/ calls[c].load = "rejected"

(***************************************************************************)
(* Claims about the event normalizer and the ACS poller.                   *)
(***************************************************************************)
\* The times of the entries of a batch, as the poller reads them.
TimeOf(entries, k) == newDate(entries[k].time)
\* The step is the completion of a poll cycle, is the processing of an alert
\* record, is an interval callback.
CycleStep == polls' # polls /\ ticks' = ticks
AlertStep == alerts' # alerts
TickStep == ticks' # ticks

\* C5: an event whose occurrence time, as the normalizer computes it, is more
\* than 30 seconds before now is not emitted and does not start call-status
\* polling, be it an entry of the ACS log given to processAcsEvent or a
\* record of the alert stream given to processAlertStreamEvent; a step that
\* handles such events only leaves the call-status poller and the pending
\* emissions as they were.
C5_Old(r) == r.age > 30
C5_Dropped(r) == ~r.emit /\ ~r.startCall
C5_State ==
    /\ \A k \in 1 .. Len(cycle.norms) :
          C5_Old(cycle.norms[k]) => C5_Dropped(cycle.norms[k])
    /\ (lastAlert.dated /\ C5_Old(lastAlert)) => C5_Dropped(lastAlert)
C5_Step ==
    (\/ /\ CycleStep
        /\ \A k \in 1 .. Len(cycle'.norms) : C5_Old(cycle'.norms[k])
     \/ /\ AlertStep
        /\ lastAlert'.dated /\ C5_Old(lastAlert'))
    => UNCHANGED <<callPollVars, emitRetries>>
\* C5: every handled event older than 30 s is dropped (C5_State), and a step
\* handling only such events starts no call polling and emits nothing
\* (C5_Step).
C5_OldEventsDropped == []C5_State /\ [][C5_Step]_vars
\* An alert record of a Motion 31 s old and a poll cycle that routed a mapped
\* entry more than 30 s old have just been handled.
C5_Witness ==
    /\ lastAlert.processed /\ lastAlert.dated /\ C5_Old(lastAlert)
    /\ lastAlert.kind = "Motion" /\ ~lastAlert.inactive
    /\ cycle.outcome = "done"
    /\ \E k \in 1 .. Len(cycle.norms) :
          C5_Old(cycle.norms[k]) /\ cycle.norms[k].kind = "Motion"

\* C6: a poll cycle started with watermark W routes exactly the entries of
\* its batch whose time is later than W, and leaves the watermark at the
\* latest time of the routed entries, or as it was if it routed none.
C6_Newer(c) == {k \in 1 .. Len(c.batch) : TimeOf(c.batch, k) > c.w}
C6_CycleRoutesNewerOnly ==
    cycle.outcome = "done" =>
        /\ Len(cycle.routed) = Cardinality(C6_Newer(cycle))
        /\ \A k \in C6_Newer(cycle) :
              \E j \in 1 .. Len(cycle.routed) : cycle.routed[j] = cycle.batch[k]
        /\ \A j \in 1 .. Len(cycle.routed) : TimeOf(cycle.routed, j) > cycle.w
        /\ IF cycle.routed = <<>> THEN lastAcsEventTime = cycle.before
           ELSE /\ \A j \in 1 .. Len(cycle.routed) :
                      TimeOf(cycle.routed, j) <= lastAcsEventTime
                /\ \E j \in 1 .. Len(cycle.routed) :
                      TimeOf(cycle.routed, j) = lastAcsEventTime
\* A cycle has skipped an entry of its batch, routed another, and advanced
\* the watermark.
C6_Witness ==
    /\ cycle.outcome = "done"
    /\ \E k \in 1 .. Len(cycle.batch) : TimeOf(cycle.batch, k) <= cycle.w
    /\ cycle.routed # <<>>
    /\ lastAcsEventTime > cycle.before

\* C7: the watermark never decreases, whatever the order in which poll
\* cycles with overlapping requests complete.
C7_WatermarkNeverDecreases == [][lastAcsEventTime' >= lastAcsEventTime]_vars

\* C8: once an entry with time T has been routed by a poll cycle, no cycle
\* routes an entry with a time of T or earlier.
C8_RoutedAtMostOnce ==
    (cycle.outcome = "done" /\ cycle.maxBefore # <<>>) =>
        \A j \in 1 .. Len(cycle.routed) :
            TimeOf(cycle.routed, j) > cycle.maxBefore[1]

\* C9: the first poll cycle after polling is started runs with a watermark
\* equal to the time polling was started, and no cycle routes an entry whose
\* time is before polling was started.
C9_FirstPollFromStart ==
    /\ \A i \in 1 .. Len(polls) : polls[i].first => polls[i].w = polls[i].startedAt
    /\ cycle.outcome = "done" =>
          \A j \in 1 .. Len(cycle.routed) : TimeOf(cycle.routed, j) >= cycle.startedAt

\* C10: a poll that fails leaves the watermark, the pending emissions, the
\* call-status poller and the poll interval as they were and routes nothing;
\* every interval callback, after failures too, polls with the watermark as
\* it is.
C10_Step ==
    /\ (CycleStep /\ cycle'.outcome = "failed") =>
          /\ lastAcsEventTime' = lastAcsEventTime
          /\ cycle'.routed = <<>>
          /\ UNCHANGED <<emitRetries, callPollVars, acsEventPollingInterval>>
    /\ TickStep =>
          /\ polls'[Len(polls')].w = lastAcsEventTime
          /\ lastAcsEventTime' = lastAcsEventTime
\* C10: every failing poll changes nothing and every interval callback polls
\* with the current watermark (C10_Step).
C10_FailedPollChangesNothing == [][C10_Step]_vars
\* Two polls in a row have failed, the second sent after the first had
\* failed, with an entry newer than the watermark in the log, and the
\* interval is still set.
C10_Witness ==
    /\ cycle.outcome = "failed"
    /\ failures = 2
    /\ cycle.afterFailures = 1
    /\ cycle.w = lastAcsEventTime
    /\ \E k \in 1 .. Len(acsLog) : TimeOf(acsLog, k) > lastAcsEventTime
    /\ acsEventPollingInterval
    /\ now > 0

(***************************************************************************)
(* Claims about the call-status poller.                                    *)
(***************************************************************************)
\* C11: the call-status poller emits TalkInvite exactly for a read of
\* ringing with idle remembered, TalkHangup exactly for a read of idle with
\* ringing remembered, and nothing for any other pair: the events emitted
\* so far are those the reads so far dictate, starting from idle.
C11_Edge(prev, cur) ==
    IF prev = "idle" /\ cur = "ringing" THEN <<"TalkInvite">>
    ELSE IF prev = "ringing" /\ cur = "idle" THEN <<"TalkHangup">>
    ELSE <<>>
RECURSIVE C11_Expected(_, _)
C11_Expected(prev, reads) ==
    IF reads = <<>> THEN <<>>
    ELSE C11_Edge(prev, reads[1]) \o C11_Expected(reads[1], Tail(reads))
C11_EdgesOnly ==
    /\ callEmits = C11_Expected("idle", callReads)
    /\ callStep.op = "read" => callStep.emits = C11_Edge(callStep.prev, callStep.read)
\* The reads idle, ringing, ringing, idle have emitted one TalkInvite, then
\* one TalkHangup, with polling active.
C11_Witness ==
    /\ callReads = <<"idle", "ringing", "ringing", "idle">>
    /\ callEmits = <<"TalkInvite", "TalkHangup">>
    /\ isCallPollingActive

\* C12: there is at most one call-status poll loop and at most one pending
\* stop timeout, they are the ones the fields name, and the poller is
\* active iff the loop exists iff a timeout is pending; a start while active
\* keeps the loop and leaves one timeout pending.
C12_State ==
    /\ Cardinality(callLoops) <= 1
    /\ Cardinality(callTimers) <= 1
    /\ isCallPollingActive <=> callLoops # {}
    /\ isCallPollingActive <=> callTimers # {}
    /\ callLoops = IF callStatusInterval = 0 THEN {} ELSE {callStatusInterval}
    /\ TimerIds(callTimers) =
          IF callStatusStopTimeout = 0 THEN {} ELSE {callStatusStopTimeout}
C12_Step ==
    (callStarts' # callStarts /\ isCallPollingActive)
    => /\ callLoops' = callLoops
       /\ isCallPollingActive'
       /\ \E t \in callTimers' : callTimers' = {t} /\ t.at = now + 180
\* C12: one loop and one timer at most, in every state and over every step.
C12_OneLoopOneTimer == []C12_State /\ [][C12_Step]_vars
\* A start has just been made with the poller active, later than the first.
C12_Witness ==
    /\ callStep.op = "start"
    /\ callStarts = 2
    /\ callStartedAt # <<>> /\ callStartedAt[1].active /\ callStartedAt[1].at > 0
    /\ isCallPollingActive

\* C13: every pending stop timeout is due 180 s after the latest start; the
\* timeout fires no earlier, and leaves the poller inactive with no loop and
\* no timeout; a stop leaves no loop and no timeout, active or not before;
\* and an active poller whose latest start is 180 s ago becomes inactive
\* unless it is started again.
C13_State ==
    /\ \A t \in callTimers :
          callStartedAt # <<>> /\ t.at = callStartedAt[1].at + 180
    /\ callStep.op = "expire" =>
          /\ callStartedAt # <<>> /\ now >= callStartedAt[1].at + 180
          /\ ~isCallPollingActive /\ callLoops = {} /\ callTimers = {}
    /\ callStep.op = "stop" =>
          /\ ~isCallPollingActive /\ callLoops = {} /\ callTimers = {}
          /\ callStatusInterval = 0 /\ callStatusStopTimeout = 0
C13_Due(n) ==
    /\ callStarts = n
    /\ isCallPollingActive
    /\ callStartedAt # <<>> /\ now >= callStartedAt[1].at + 180
\* C13: the stop timeout is due 180 s after the latest start, and once due it
\* stops the poller unless polling is started again.
C13_ExpiryStops ==
    /\ []C13_State
    /\ \A n \in 0 .. MaxStarts :
          C13_Due(n) ~> (~isCallPollingActive \/ callStarts > n)
\* The poller was started at 0 and again, while active, at 1, and its
\* timeout has fired at 181.
C13_Witness ==
    /\ callStep.op = "expire"
    /\ callStartedAt = <<[at |-> 1, active |-> TRUE]>>
    /\ now = 181

(***************************************************************************)
(* Claims about the device entities.                                       *)
(***************************************************************************)
\* A relock timer fires in this step, and the timer that does.
RelockStep == lockEvents' = lockEvents /\ relockTimers' # relockTimers
                /\ relockTimers' \subseteq relockTimers
Fired == CHOOSE t \in relockTimers : t \notin relockTimers'

\* C14: for a door at most one relock timer is pending, and it is the one of
\* the most recent Unlock; the relock that fires is that of the most recent
\* Unlock.
C14_State ==
    \A d \in ProvisionedDoors :
        LET pending == {t \in relockTimers : t.door = d} IN
        /\ Cardinality(pending) <= 1
        /\ \A t \in pending : t.unlock = lastUnlock
C14_Step == RelockStep => Fired.unlock = lastUnlock
\* C14: both parts, in every state and over every step.
C14_OneRelockPending == []C14_State /\ [][C14_Step]_vars

\* C15: the handler of a Lock or Unlock leaves the LockState the event
\* dictates, and the relock of an Unlock changes the LockState only when no
\* later Unlock of the door still awaits its lookup or has its own relock
\* pending for a later time.
C15_Delivered ==
    (devEvents' # devEvents /\ lastEvent' # <<>>) =>
        LET e == lastEvent'[1] IN
        /\ (e.kind = "Unlock" /\ e.doorNo \in ProvisionedDoors)
              => lockState'[e.doorNo] = "Unlocked"
        /\ (e.kind = "Lock" /\ e.doorNo \in ProvisionedDoors)
              => lockState'[e.doorNo] = "Locked"
C15_Relock ==
    (RelockStep /\ lockState' # lockState) =>
        /\ \A l \in lookups : l.door = Fired.door => l.unlock < Fired.unlock
        /\ \A o \in relockTimers :
              (o.door = Fired.door /\ o.unlock > Fired.unlock) => o.at <= Fired.at
\* C15: both parts, over every step.
C15_InArrivalOrder == [][C15_Delivered /\ C15_Relock]_vars


\* C16: a fresh ACS entry 5,214 gives an Unlock for channel '1' and the lock
\* of door 1 becomes Unlocked; an Unlocked lock whose Unlock is the latest
\* event has its relock ahead (the lookup in flight or the timer pending),
\* and once the timer is due the lock becomes Locked unless a further event
\* arrives.
C16_Step ==
    (devEvents' # devEvents /\ lastRecord'.src = "acs" /\ lastRecord'.key = "5,214"
        /\ lastRecord'.fresh) =>
        /\ lastEvent' = <<[kind |-> "Unlock", doorNo |-> "1", inactive |-> FALSE]>>
        /\ lockState'["1"] = "Unlocked"
C16_State ==
    (lockState["1"] = "Unlocked" /\ lastUnlock = lockEvents) =>
        \/ \E l \in lookups : l.unlock = lastUnlock
        \/ \E t \in relockTimers : t.unlock = lastUnlock
C16_Due(n) ==
    /\ lockEvents = n
    /\ lockState["1"] = "Unlocked"
    /\ \E t \in relockTimers : t.unlock = n /\ now >= t.at
\* C16: the three parts together.
C16_UnlockThenRelock ==
    /\ [][C16_Step]_vars
    /\ []C16_State
    /\ \A n \in 1 .. MaxDevEvents :
          C16_Due(n) ~> (lockState["1"] = "Locked" \/ lockEvents > n)


\* C17: a DoorAbnormalOpened event for a door that has an entry sensor sets
\* that sensor's state to Jammed.
C17_AbnormalOpenJams ==
    [][(devEvents' # devEvents /\ lastEvent' # <<>>
          /\ lastEvent'[1].kind = "DoorAbnormalOpened"
          /\ lastEvent'[1].doorNo \in ProvisionedDoors)
        => entryOpen'[lastEvent'[1].doorNo] = "jammed"]_vars

\* C18: a fresh, active alert-stream record 5,25 with channelID 1 gives a
\* DoorOpened event for channel '1' marked active, and the state the entry
\* sensor of door 1 reports becomes Open; a record 5,26 makes it Closed.
C18_Record(key) ==
    /\ devEvents' # devEvents
    /\ lastRecord' = [src |-> "alert", key |-> key, channelID |-> <<1>>,
                      fresh |-> TRUE, eventState |-> "active"]
C18_DoorRecordSetsSensor ==
    [][/\ C18_Record("5,25") =>
            /\ lastEvent' = <<[kind |-> "DoorOpened", doorNo |-> "1",
                               inactive |-> FALSE]>>
            /\ entryOpen'["1"] = "true"
       /\ C18_Record("5,26") =>
            /\ lastEvent' = <<[kind |-> "DoorClosed", doorNo |-> "1",
                               inactive |-> FALSE]>>
            /\ entryOpen'["1"] = "false"]_vars


(***************************************************************************)
(* Claims about the timezone resolver (under SpecTz).                      *)
(***************************************************************************)
\* Two digits of a number below 100, and the other sign.
C19_TwoDigits(n) == <<Digits[(n \div 10) + 1], Digits[(n % 10) + 1]>>
C19_Hours(h) == IF Len(h) = 1 THEN digitValue(h[1])
                ELSE 10 * digitValue(h[1]) + digitValue(h[2])
C19_Opposite(sign) == IF sign = "+" THEN "-" ELSE "+"

\* C19: for a timeZone text CST<sign>H:MM:SS or CST<sign>HH:MM:SS the offset
\* cached is the opposite sign, the hours in two digits, a colon and the
\* minutes; CST-3:00:00 gives +03:00 and CST+5:30:00 gives -05:30.
C19_ParsedOffsetCached ==
    /\ \A sign \in TzSigns, h \in TzHours, m \in TzMinutes, sec \in TzSeconds :
          tzInput.timeZone = timeZoneText(sign, h, m, sec) =>
              /\ ~tzInput.failed
              /\ deviceTimezoneText =
                    Join(<<C19_Opposite(sign)>> \o C19_TwoDigits(C19_Hours(h))
                           \o <<":">> \o m)
              /\ tzResult = [raised |-> FALSE, returned |-> deviceTimezoneText]
    /\ tzInput.timeZone = <<"C", "S", "T", "-", "3", ":", "0", "0", ":", "0", "0">>
          => deviceTimezoneText = "+03:00"
    /\ tzInput.timeZone = <<"C", "S", "T", "+", "5", ":", "3", "0", ":", "0", "0">>
          => deviceTimezoneText = "-05:30"

C19_Witness ==
    /\ tzInput.timeZone = <<"C", "S", "T", "+", "5", ":", "3", "0", ":", "0", "0">>
    /\ deviceTimezoneText = "-05:30"
    /\ tzCalls = MaxTzCalls

\* The host's offset from UTC for a getTimezoneOffset() of o minutes.
C20_HostOffset(o) ==
    LET east == IF o < 0 THEN -o ELSE o IN
    Join(<<IF o <= 0 THEN "+" ELSE "-">> \o C19_TwoDigits(east \div 60) \o <<":">>
           \o C19_TwoDigits(east % 60))

\* C20: when the request or the parsing fails, nothing is raised and the
\* offset cached is the host's offset from UTC; a host at UTC+05:30 gives
\* +05:30.
C20_FallbackIsHostOffset ==
    tzInput.failed =>
        /\ ~tzResult.raised
        /\ deviceTimezoneText = C20_HostOffset(tzInput.systemOffset)
        /\ tzInput.systemOffset = -330 => deviceTimezoneText = "+05:30"

(***************************************************************************)
(* Claims about the handler's motion, tamper and door branches.            *)
(***************************************************************************)
\* The entities' state.
entityState == <<lockState, entryOpen, sensorBinaryState, motionPings, motionDetected,
                 tamperOn, binaryState>>

\* The timers and lookups the handler sets.
handlerTimers == <<doorOpenDurationTimeout, relockTimers, lookups, motionTimeout,
                   motionTimers, ringStopTimers>>

\* C21: a record of a (major, minor) pair that EventCodeMap lacks, from the
\* ACS log or from the alert stream, emits no event, changes no entity state
\* and no timer, leaves the call-status poller as it was, schedules no retry
\* and leaves the listener and the ACS poller running, so that the records
\* after it are processed.
C21_Unmapped == devEvents' = devEvents + 1 /\ lastRecord'.key \notin MappedKeys
C21_UnmappedIgnored ==
    [][C21_Unmapped =>
        /\ lastEvent' = <<>>
        /\ UNCHANGED <<entityState, handlerTimers, callPollVars, emitRetries>>
        /\ UNCHANGED <<listener, acsEventPollingInterval, polls>>]_vars
\* A Motion is counted after a record of an unmapped pair was processed.
C21_Witness ==
    /\ unmappedSeen
    /\ lastRecord.key = "1,3"
    /\ lastEvent # <<>>
    /\ motionPings = 1
    /\ isCallPollingActive

\* C22: a Motion event adds one to the pulse counter and leaves exactly one
\* decay timer pending, due the configured number of seconds (10 when none is
\* configured) after the event; MotionState is true exactly while the counter
\* is at or above the configured threshold (1 when none is configured); a
\* decay timer fires no earlier than its deadline and then MotionState is
\* false and the counter 0; at no time is more than one decay timer pending.
C22_Threshold == IF motionPingsItem = "2" THEN 2 ELSE 1
C22_Duration == IF motionTimeoutItem = "3" THEN 3 ELSE 10
C22_Motion ==
    /\ devEvents' = devEvents + 1
    /\ lastEvent' # <<>>
    /\ lastEvent'[1].kind = "Motion"
C22_Fires == devEvents' = devEvents /\ motionTimers' # motionTimers
C22_PulseAndDecay ==
    /\ [](/\ Cardinality(motionTimers) <= 1
          /\ motionDetected = (motionPings >= C22_Threshold))
    /\ [][/\ C22_Motion =>
               /\ motionPings' = motionPings + 1
               /\ \E t \in motionTimers' :
                      motionTimers' = {t} /\ t.at = now + C22_Duration
                                         /\ t.id = motionTimeout'
          /\ C22_Fires =>
               /\ \E t \in motionTimers : motionTimers' = {} /\ now >= t.at
               /\ ~motionDetected'
               /\ motionPings' = 0]_vars
\* With a threshold of 2, two pulses have set MotionState.
C22_Witness ==
    /\ motionPingsItem = "2"
    /\ motionPings = 2
    /\ motionDetected
    /\ lastEvent # <<>>

\* C23: a CaseTamperAlert event turns the tamper entity on when there is one,
\* and then the pulse counter, MotionState and the decay timer stay as they
\* were; when there is none it does to the pulse counter, MotionState and the
\* decay timer what a Motion event does, and the tamper state stays.
C23_Tamper ==
    /\ devEvents' = devEvents + 1
    /\ lastEvent' # <<>>
    /\ lastEvent'[1].kind = "CaseTamperAlert"
C23_TamperOrMotion ==
    [][C23_Tamper =>
        IF tamperAlert
        THEN /\ tamperOn'
             /\ UNCHANGED <<motionPings, motionDetected, motionTimeout, motionTimers>>
        ELSE /\ motionPings' = motionPings + 1
             /\ motionDetected' = (motionPings + 1 >= C22_Threshold)
             /\ \E t \in motionTimers' :
                    motionTimers' = {t} /\ t.at = now + C22_Duration
                                       /\ t.id = motionTimeout'
             /\ UNCHANGED tamperOn]_vars
\* A CaseTamperAlert was counted as a pulse, there being no tamper entity.
C23_Witness ==
    /\ ~tamperAlert
    /\ lastEvent # <<>>
    /\ lastEvent[1].kind = "CaseTamperAlert"
    /\ motionPings = 1
    /\ motionDetected
\* A CaseTamperAlert has turned the tamper entity on.
C23_WitnessOn ==
    /\ tamperOn
    /\ lastEvent # <<>>
    /\ lastEvent[1].kind = "CaseTamperAlert"
    /\ motionPings = 0

\* C24: an Unlock, Lock, DoorOpened or DoorClosed event for a channel that
\* has no lock, respectively no entry sensor, changes no entity state and
\* creates no entity, cancels no relock timer, and schedules neither a relock
\* timer, a door-parameter lookup nor a stopRinging timer.
C24_NoEntity ==
    /\ devEvents' = devEvents + 1
    /\ lastEvent' # <<>>
    /\ lastEvent'[1].kind \in {"Unlock", "Lock", "DoorOpened", "DoorClosed"}
    /\ lastEvent'[1].doorNo \notin ProvisionedDoors
C24_NoEntityNoEffect ==
    [][C24_NoEntity =>
        /\ UNCHANGED <<entityState, handlerTimers>>
        /\ DOMAIN lockState' = ProvisionedDoors
        /\ DOMAIN entryOpen' = ProvisionedDoors
        /\ DOMAIN sensorBinaryState' = ProvisionedDoors]_vars
\* An Unlock for door 2, which has no lock, arrived while the relock timer of
\* door 1 was pending.
C24_Witness ==
    /\ lastEvent # <<>>
    /\ lastEvent[1].kind = "Unlock"
    /\ lastEvent[1].doorNo = "2"
    /\ relockTimers # {}
    /\ ringStopTimers # {}
    /\ lockState["1"] = "Unlocked"

(***************************************************************************)
(* Claims about the shared sessions and teardown (under SpecSess).         *)
(***************************************************************************)
\* The devices that hold the session of SharedKey and have not released it.
holders == {d \in Devices : eventApi[d] # 0 /\ DeviceKey[d] = SharedKey /\ d \notin released}

\* C25: devices of the same connection identity get the same session, and
\* while a device holds the shared session, a listener having been created
\* for it and no listenEvents() being in flight, the listener and the ACS
\* poller of the session are running: ingestion stops only with the last
\* holder's teardown.
C25_SharedUntilLastRelease ==
    /\ \A d1, d2 \in Devices :
          (eventApi[d1] # 0 /\ eventApi[d2] # 0 /\ DeviceKey[d1] = DeviceKey[d2])
              => eventApi[d1] = eventApi[d2]
    /\ (holders # {} /\ listenersMade > 0 /\ listenCalls = 0)
          => (listener # 0 /\ acsEventPollingInterval)

\* C26: after destroy() of the session, in whatever state it is called, the
\* ACS poll interval is cleared, no call-status interval and no stop timeout
\* is live or named by a handle, and there is no listener; destroy() called
\* in a state that is already so changes nothing of the session.
C26_Destroys == \E d \in released' \ released : DeviceKey[d] = SharedKey
C26_Stopped ==
    /\ ~acsEventPollingInterval
    /\ callLoops = {} /\ callStatusInterval = 0
    /\ callTimers = {} /\ callStatusStopTimeout = 0
    /\ ~isCallPollingActive
    /\ listener = 0
C26_DestroyStopsAll ==
    [][C26_Destroys =>
        /\ C26_Stopped'
        /\ C26_Stopped =>
              UNCHANGED <<clockVars, listenVars, pollVars, callPollVars, histVars,
                          acsLog, emitRetries, capVars>>]_vars
\* Both holders of the shared session have called destroy(), after the
\* listener was created, the poller ticked and a Motion record arrived.
C26_Witness ==
    /\ {"a", "b"} \subseteq released
    /\ listenersMade = 1
    /\ ticks > 0
    /\ alerts = 1
    /\ C26_Stopped

(***************************************************************************)
(* Claims about emitEvent (under SpecEmit).                                *)
(***************************************************************************)
\* C27: when a subscriber throws during an emission, no exception leaves
\* emitEvent, a retry is set 250 ms later, no other subscriber ever has the
\* event more than once, and once the retry has emitted the event (a listener
\* being there) every other subscriber has it exactly once.
C27_OthersReceiveOnce ==
    /\ emitErrors.propagated = 0
    /\ \A e \in 1 .. Len(emissions) :
          LET r == emissions[e] IN
          r.thrower # 0 =>
            /\ r.retry # "none"
            /\ r.delay = 250
            /\ \A s \in Subscribers \ {r.thrower} : r.received[s] <= 1
            /\ r.retry = "done" =>
                  \A s \in Subscribers \ {r.thrower} : r.received[s] = 1

(***************************************************************************)
(* Claims about the alert stream (under SpecStream).                       *)
(***************************************************************************)
\* What the handler has handed on, and what it keeps, when the given bytes
\* arrive in a single chunk.
inOneChunk(bytes) ==
    LET parts == split(toStringUtf8(bytes), MIME_boundary) IN
    [handed |-> processParts(SubSeq(parts, 1, Len(parts) - 1)),
     buffer |-> parts[Len(parts)]]

\* C28: however the bytes of the alert stream are cut into chunks, the parts
\* handed on so far, and the fragment kept in the buffer, are those of the
\* bytes received so far arriving in one chunk: each complete part once, in
\* order, the unterminated rest kept and not handed on.
C28_ChunkingInvisible ==
    stream # <<>> =>
        LET whole == inOneChunk(SubSeq(stream, 1, arrived)) IN
        /\ handed = whole.handed
        /\ buffer = whole.buffer

\* A step in which stopRinging() is called: by startIntercom(), or by the timer
\* an Unlock set.
C29_Called == intercoms' # intercoms \/ (ringStopTimers' \subseteq ringStopTimers
                                         /\ ringStopTimers' # ringStopTimers)

\* What each step does to the stopRinging() calls.
C29_Step ==
    /\ (C29_Called /\ ~binaryState) =>
          /\ ringStops' = ringStops /\ directCalls' = directCalls
          /\ binaryState' = binaryState /\ controlQueue' = controlQueue
          /\ lastRing' = [mode |-> "noop", cause |-> "none", startedAt |-> now,
                          endedAt |-> now, raised |-> FALSE]
    /\ (C29_Called /\ binaryState /\ sipManager) =>
          /\ directCalls' = directCalls
          /\ \/ /\ \E r \in ringStops' \ ringStops :
                      /\ ringStops' = ringStops \cup {r}
                      /\ r.startedAt = now /\ r.at = now + ringTimeout
                /\ lastRing' = lastRing
             \/ /\ ringStops' = ringStops
                /\ lastRing' = [mode |-> "sip", cause |-> "answer", startedAt |-> now,
                                endedAt |-> now, raised |-> FALSE]
    /\ \A r \in ringStops \ ringStops' :
          /\ lastRing'.mode = "sip" /\ ~lastRing'.raised /\ lastRing'.endedAt = now
          /\ \/ /\ lastRing'.cause = "hangup"
                /\ controlQueue # <<>> /\ Head(controlQueue) = "TalkHangup"
                /\ controlQueue' = Tail(controlQueue)
             \/ /\ lastRing'.cause = "timeout"
                /\ now >= r.startedAt + ringTimeout
    /\ (C29_Called /\ binaryState /\ ~sipManager) =>
          /\ ringStops' = ringStops
          /\ \E c \in directCalls' \ directCalls :
                /\ directCalls' = directCalls \cup {c}
                /\ c.startedAt = now
    /\ (directCalls' \ directCalls # {}) => (C29_Called /\ binaryState /\ ~sipManager)

\* C29: stopRinging() does nothing when CallRinging is false. When it is
\* true and there is a SIP manager, the call awaits a timer due 5 s after its
\* start; it returns, without raising, when a TalkHangup is emitted on
\* controlEvents, or when that timer fires, or at once when the answer is
\* rejected; and a call whose timer is due does return. When CallRinging is
\* true and there is no SIP manager, the call sends the stop-ringing command
\* to the device, and nothing else sends it.
C29_RingStop ==
    /\ [][C29_Step]_vars
    /\ <>[](\A r \in ringStops : now < r.at)

\* A call that waited with a SIP manager has returned on a TalkHangup, before
\* its timer was due.
C29_Witness ==
    /\ lastRing.mode = "sip" /\ lastRing.cause = "hangup"
    /\ lastRing.startedAt < lastRing.endedAt
    /\ lastRing.endedAt < lastRing.startedAt + ringTimeout

\* A call has returned on its timer.
C29_WitnessTimeout ==
    /\ lastRing.mode = "sip" /\ lastRing.cause = "timeout"
    /\ lastRing.endedAt >= lastRing.startedAt + ringTimeout

\* What the end of a getVideoChannels call does, given what getCodecs answered.
C30_Video ==
    \A id \in VideoIds : (id \in videoPending /\ id \notin videoPending') =>
        LET v == lastVideo' IN
        /\ v.fetch.kind = "channels" =>
              /\ channelsJSON' # <<>>
              /\ JSONparse(channelsJSON') = v.fetch.channels
              /\ v.outcome = "returned"
              /\ v.ret = channelMap(v.fetch.channels)
        /\ (v.fetch.kind = "error" /\ channelsJSON # <<>>) =>
              /\ v.outcome = "returned"
              /\ v.ret = channelMap(JSONparse(channelsJSON))
              /\ channelsJSON' = channelsJSON
        /\ (v.fetch.kind = "error" /\ channelsJSON = <<>>) =>
              /\ v.outcome = "raised"
              /\ v.error = v.fetch.error
              /\ channelsJSON' = channelsJSON

\* What the end of a getDoorOpenDuration call does, given what the device
\* answered to the door-parameter request.
C30_Door ==
    \A c \in Calls, resp \in ParamResponses : ParamComplete(c, resp) =>
        LET door == calls[c].door IN
        /\ resp # "error" =>
              /\ storage'[door] = resp
              /\ calls'[c].result = "ok"
              /\ calls'[c].ret = jsNumber(resp)
        /\ (resp = "error" /\ storage[door] # "") =>
              /\ calls'[c].result = "ok"
              /\ calls'[c].ret = jsNumber(storage[door])
              /\ storage' = storage
        /\ (resp = "error" /\ storage[door] = "") =>
              /\ calls'[c].result = "Transport"
              /\ storage' = storage

\* C30: in getDoorOpenDuration and in getVideoChannels, an answered request
\* has its answer stored (and returned); a failed request with an answer in
\* the store returns the stored answer, raising nothing; a failed request
\* with nothing in the store raises the error of the request.
C30_StoreAndFallback == [][C30_Video /\ C30_Door]_vars

\* getVideoChannels has returned the stored channels after getCodecs failed,
\* and a getDoorOpenDuration call has ended with the error of its request.
C30_Witness ==
    /\ lastVideo.fetch.kind = "error" /\ lastVideo.outcome = "returned"
    /\ lastVideo.ret = {"101", "102"}
    /\ \E c \in Calls : /\ calls[c].op = "getDoorOpenDuration"
                         /\ calls[c].result = "Transport"

\* getDoorOpenDuration has returned the stored answer: the door's answer is
\* in the store and two calls for the door have returned.
C30_WitnessDoor ==
    /\ lastVideo.outcome = "raised" /\ lastVideo.error = "Unauthorized"
    /\ \E c, d \in Calls : /\ c # d /\ calls[c].door = calls[d].door
                            /\ calls[c].op = "getDoorOpenDuration"
                            /\ calls[d].op = "getDoorOpenDuration"
                            /\ calls[c].result = "ok" /\ calls[d].result = "ok"

\* The errors controlDoor, and getDoorControlCapabilities before it, can end with.
C31_Errors == {"OutOfRange", "Unsupported", "Transport", "LoadFailed"}

\* A step in which a lock() or unlock() call ends.
C31_Ends(c) == calls[c].door = "1" /\ calls[c].pc = "done"
               /\ calls'[c].pc \in {"returned", "raised"}

C31_Step ==
    /\ \A c \in Calls : C31_Ends(c) =>
          IF calls[c].op = "controlDoor" /\ calls[c].result = "ok"
          THEN /\ calls'[c].pc = "returned"
               /\ <<"1", calls[c].cmd>> \in doorRequests
               /\ lockState'["1"] = IF calls[c].cmd = "open" THEN "Unlocked" ELSE "Locked"
          ELSE /\ calls'[c].pc = "raised"
               /\ calls'[c].result \in C31_Errors
               /\ lockState' = lockState
    /\ lockState' # lockState =>
          \E c \in Calls : /\ C31_Ends(c)
                           /\ calls[c].op = "controlDoor" /\ calls[c].result = "ok"
    /\ \A c \in Calls :
          (calls[c].door = "1" /\ calls[c].pc = "done" /\ calls'[c].pc # "done") =>
              (calls[c].result = "ok" \/ calls'[c].pc = "raised")

\* C31: lock() and unlock() set the lock's lockState, to Locked and to
\* Unlocked, only when controlDoor has returned; when controlDoor (or, in
\* lock(), getDoorControlCapabilities) throws, the method throws that error
\* and lockState stays as it was.
C31_LockAfterSuccess == [][C31_Step]_vars

\* unlock() has returned and set Unlocked, and a later lock() has thrown
\* the error of its request, the lock staying Unlocked.
C31_Witness ==
    /\ lockState["1"] = "Unlocked"
    /\ calls[1].pc = "returned" /\ calls[1].cmd = "open"
    /\ calls[2].pc = "raised" /\ calls[2].op = "controlDoor"
    /\ calls[2].result = "Transport"

\* lock() has returned after an unlock() and set Locked.
C31_WitnessLock ==
    /\ lockState["1"] = "Locked"
    /\ calls[1].pc = "returned" /\ calls[1].cmd = "open"
    /\ calls[2].pc = "returned" /\ calls[2].cmd \in {"close", "resume"}

\* C32: the handler of an Unlock or Lock event for one door never cancels
\* the pending relock timer of another door.
C32_OtherDoorTimerKept ==
    [][devEvents' = devEvents + 1 =>
         \A t \in relockTimers \ relockTimers' :
             lastEvent' # <<>> /\ lastEvent'[1].doorNo = t.door]_vars

\* C33: in a poll cycle the entries forwarded are those whose absolute time,
\* the device time with the resolved device offset applied, is later than
\* the watermark the cycle started with; the others are skipped; and the
\* watermark the cycle leaves is the latest absolute time forwarded.
C33_AbsoluteTimeCompared ==
    cycle.outcome = "done" =>
        /\ cycle.routed =
              SelectSeq(cycle.batch, LAMBDA e : convertDeviceTimeToUTC(e.time) > cycle.w)
        /\ \A k \in 1 .. Len(cycle.routed) :
              convertDeviceTimeToUTC(cycle.routed[k].time) <= lastAcsEventTime

\* C34: a call-status poll that fails emits neither TalkInvite nor
\* TalkHangup and leaves the remembered call state, the interval and the
\* idle-expiry timer as they were.
C34_FailedPollSilent ==
    [][(callStep'.op = "read" /\ callStep'.resp = "error") =>
          /\ callEmits' = callEmits
          /\ lastCallState' = lastCallState
          /\ callLoops' = callLoops /\ callTimers' = callTimers]_vars

\* A step that processes a record of the alert stream, or the answer to an
\* ACS poll; and whether an active Motion event is emitted in it.
C35_Alert == alerts' = alerts + 1
C35_Poll == Len(polls') < Len(polls) /\ cycle'.outcome = "done"
C35_ActiveMotion ==
    \/ /\ C35_Alert
       /\ lastAlert'.emit /\ lastAlert'.kind = "Motion" /\ ~lastAlert'.inactive
    \/ /\ C35_Poll
       /\ \E k \in 1 .. Len(cycle'.norms) :
             cycle'.norms[k].emit /\ cycle'.norms[k].kind = "Motion"

C35_Step ==
    /\ C35_ActiveMotion =>
          /\ isCallPollingActive' /\ callStatusInterval' \in callLoops'
          /\ \E t \in callTimers' : /\ t.id = callStatusStopTimeout'
                                     /\ t.at = now + callStatusPollingTimeoutSeconds
          /\ Cardinality(callTimers') = 1
          /\ isCallPollingActive =>
                (callLoops' = callLoops /\ callStatusInterval' = callStatusInterval)
          /\ ~isCallPollingActive => Cardinality(callLoops') = Cardinality(callLoops) + 1
    /\ ((C35_Alert \/ C35_Poll) /\ ~C35_ActiveMotion) => UNCHANGED callPollVars

\* C35: an emitted Motion event that is active (of the alert stream with an
\* eventState other than 'inactive', or of the ACS log) starts call-status
\* polling, or, polling being active, sets its idle-expiry timer anew; an
\* inactive Motion of the alert stream, and the processing of any other
\* record or entry, leave the poller's fields, interval and timer alone.
C35_MotionStartsPolling == [][C35_Step]_vars

\* A Motion of the ACS log has started polling and, in the next step, an
\* active Motion of the alert stream has set the timer anew.
C35_Witness ==
    /\ isCallPollingActive
    /\ cycle.outcome = "done"
    /\ \E k \in 1 .. Len(cycle.norms) : cycle.norms[k].emit /\ cycle.norms[k].kind = "Motion"
    /\ lastAlert.processed /\ lastAlert.emit /\ lastAlert.kind = "Motion"
    /\ ~lastAlert.inactive

\* An inactive Motion of the alert stream has been emitted and polling is
\* not active.
C35_WitnessInactive ==
    /\ lastAlert.processed /\ lastAlert.emit /\ lastAlert.kind = "Motion"
    /\ lastAlert.inactive /\ ~isCallPollingActive /\ listener # 0

\* C36: once the handler of the latest Unlock of a provisioned lock is past
\* its open-duration lookup, however the lookup ended, the call-stop timer
\* of that Unlock has been set.
C36_CallStopScheduled ==
    (lastUnlock # 0 /\ ~\E l \in lookups : l.unlock = lastUnlock) =>
        \E t \in ringStopTimers : t.unlock = lastUnlock

\* C37: a listener that has not been destroyed is not replaced: every
\* listenEvents() call returns the listener the API holds, and at most one
\* ACS polling loop runs.
C37_OneListener ==
    [][(listener # 0 /\ listener' # 0) => listener' = listener]_vars

\* C38: the step that destroys the listener leaves no ACS poll interval, no
\* call-status poll interval and no idle-expiry timer scheduled.
C38_ListenerDestroyStopsLoops ==
    [][(listener # 0 /\ listener' = 0) =>
          /\ ~acsEventPollingInterval'
          /\ callLoops' = {} /\ callStatusInterval' = 0
          /\ callTimers' = {}]_vars

\* C39: once the poller has emitted a TalkInvite, a poll that reads 'idle'
\* from the device leaves a TalkHangup as the latest event the poller has
\* emitted, whatever statuses were read in between.
C39_HangupByIdleRead ==
    (callStep.op = "read" /\ callStep.resp = "idle" /\ callEmits # <<>>) =>
        callEmits[Len(callEmits)] = "TalkHangup"

\* A step that processes the answer to a poll whose loop has been stopped
\* since the request was sent: an ACS poll with the ACS interval cleared, a
\* call-status poll with no call-status interval left.
C40_LateAcsResponse ==
    Len(polls') < Len(polls) /\ cycle'.outcome = "done" /\ ~acsEventPollingInterval
C40_LateCallRead == callStep'.op = "read" /\ callLoops = {}

\* C40: the answer to a poll that was sent before polling was stopped and
\* arrives after it emits no event (none delivered, none left for a retry
\* that a later listener would receive), leaves the watermark where it was
\* and leaves the remembered call state where it was.
C40_LateResponseDropped ==
    [][/\ C40_LateAcsResponse =>
             /\ Emitted(cycle'.norms) = <<>>
             /\ emitRetries' = emitRetries
             /\ lastAcsEventTime' = lastAcsEventTime
       /\ C40_LateCallRead =>
             /\ callStep'.emits = <<>>
             /\ emitRetries' = emitRetries
             /\ lastCallState' = lastCallState]_vars

====
